---------------------------- MODULE Spec2Model ----------------------------
(***************************************************************************)
(* A model of the D&D combat tracker (combat-tracker.go): the in-memory    *)
(* CombatTracker, the Engine methods that mutate it, the JSON save / load  *)
(* gateway and the commands of main that set the save target.              *)
(*                                                                         *)
(* Go strings are modelled as what they are, sequences of bytes (0..255);  *)
(* every string literal of the source is spelled out below.  Go slices are *)
(* sequences; a nil slice and an empty slice are both <<>> (the program    *)
(* only ever takes their len, and JSON null / [] decode back to a slice of *)
(* length 0).                                                              *)
(***************************************************************************)
EXTENDS Integers, Sequences, FiniteSets, TLC

VARIABLES
    ct,         \* the tracker main holds: *CombatTracker (nil before startup is NewCombatTracker's value)
    fs,         \* the files: path -> [kind, data]
    pc,         \* main's position: "start" (before line 548), "loop" (572..721), "done" (716)
    lastOp,     \* history: the operation the last step ran, its arguments, and whether it was applied
    lastWrite,  \* history: what the last step did to a file: "none", "ok", "openfail", "writefail"
    started,    \* history: whether StartCombat has ever succeeded on this tracker
    steps,      \* history: how many commands the loop has run, counted up to MaxSteps
    now,        \* the clock time.Now() reads: the index of the current instant in Instants
    intSize     \* the build: the width of int in bits, 32 (GOARCH=386, arm) or 64 (amd64, arm64)

vars == <<ct, fs, pc, lastOp, lastWrite, started, steps, now, intSize>>

(***************************************************************************)
(* Bounds of the model.                                                    *)
(***************************************************************************)
MaxCombatants == 2
MaxRound == 2
MaxEffects == 1
MaxSteps == 4
MaxHPCombatants == 1
MaxCopies == 3
MaxStatusList == 3

Max(a, b) == IF a >= b THEN a ELSE b
Min(a, b) == IF a <= b THEN a ELSE b

(***************************************************************************)
(* Go's int.  It is 32 bits wide on the 32-bit ports and 64 bits wide on   *)
(* the others; intSize says which build runs.  Its arithmetic wraps around *)
(* in two's complement at that width.  The state and the inputs hold       *)
(* integers of MinInt32..MaxInt32, which an int of either width holds.     *)
(* The arithmetic of AdjustHP is done on wide values: the 64-bit build     *)
(* gets results outside that range where the 32-bit build wraps around.    *)
(* A wide value <<q, r>> with r in 0..Limb-1 is the integer q * Limb + r.  *)
(* With operands of MinInt32..MaxInt32 a result has at most 34 bits, which *)
(* a 64-bit int holds as it is: the 64-bit build wraps at 2^63 only, for   *)
(* operands beyond the ones the model holds.                               *)
(***************************************************************************)
MaxInt32 == 2147483647
MinInt32 == (-MaxInt32) - 1
IntSizes == {32, 64}

Limb == 65536

Wide(n) == <<n \div Limb, n % Limb>>

\* the integer a wide value of MinInt32..MaxInt32 stands for
Narrow(x) == x[1] * Limb + x[2]

\* the int of the build for the wide value x: at 32 bits x modulo 2^32, in -2^31..2^31-1
WrapInt(x) ==
    IF intSize = 32
    THEN <<((x[1] + Limb \div 2) % Limb) - Limb \div 2, x[2]>>
    ELSE x

\* a + b
IntAdd(a, b) == WrapInt(<<a[1] + b[1] + (a[2] + b[2]) \div Limb, (a[2] + b[2]) % Limb>>)

\* -a: on the 32-bit build the least int is its own negation
IntNeg(a) == WrapInt(IF a[2] = 0 THEN <<-a[1], 0>> ELSE <<-a[1] - 1, Limb - a[2]>>)

\* a - b
IntSub(a, b) == IntAdd(a, IntNeg(b))

\* a < b
IntLess(a, b) == a[1] < b[1] \/ (a[1] = b[1] /\ a[2] < b[2])

\* a > 0
IntPositive(a) == IntLess(Wide(0), a)

(***************************************************************************)
(* String literals of the source, byte by byte.                            *)
(***************************************************************************)
DefaultCampaign == <<68,101,102,97,117,108,116,32,67,97,109,112,97,105,103,110>>        \* "Default Campaign"
UnknownEncounter == <<85,110,107,110,111,119,110,32,69,110,99,111,117,110,116,101,114>> \* "Unknown Encounter"
VersionString == <<49,46,48,46,48>>                                                     \* "1.0.0"
JsonSuffix == <<46,106,115,111,110>>                                                    \* ".json"
DigitCutset == <<48,49,50,51,52,53,54,55,56,57>>                                        \* "0123456789"

defaultEffects ==
    << <<66,108,105,110,100,101,100>>,                          \* "Blinded"
       <<67,104,97,114,109,101,100>>,                           \* "Charmed"
       <<68,101,97,102,101,110,101,100>>,                       \* "Deafened"
       <<70,114,105,103,104,116,101,110,101,100>>,              \* "Frightened"
       <<71,114,97,112,112,108,101,100>>,                       \* "Grappled"
       <<73,110,99,97,112,97,99,105,116,97,116,101,100>>,       \* "Incapacitated"
       <<73,110,118,105,115,105,98,108,101>>,                   \* "Invisible"
       <<80,97,114,97,108,121,122,101,100>>,                    \* "Paralyzed"
       <<80,101,116,114,105,102,105,101,100>>,                  \* "Petrified"
       <<80,111,105,115,111,110,101,100>>,                      \* "Poisoned"
       <<80,114,111,110,101>>,                                  \* "Prone"
       <<82,101,115,116,114,97,105,110,101,100>>,               \* "Restrained"
       <<83,116,117,110,110,101,100>>,                          \* "Stunned"
       <<85,110,99,111,110,115,99,105,111,117,115>>,            \* "Unconscious"
       <<67,117,115,116,111,109,32,83,116,97,116,117,115,32,69,102,102,101,99,116>> >> \* "Custom Status Effect"

(***************************************************************************)
(* strconv / fmt: decimal formatting of an int ("%d", and the JSON number  *)
(* encoding/json writes) and its parse.                                    *)
(***************************************************************************)
RECURSIVE FormatUint(_)
FormatUint(n) == IF n < 10 THEN <<48 + n>> ELSE FormatUint(n \div 10) \o <<48 + (n % 10)>>

Itoa(n) ==
    IF n = MinInt32 THEN <<45>> \o FormatUint(MaxInt32 \div 10) \o <<48 + (MaxInt32 % 10) + 1>>
    ELSE IF n < 0 THEN <<45>> \o FormatUint(-n)
    ELSE FormatUint(n)

RECURSIVE ParseUint(_, _)
ParseUint(s, acc) == IF s = <<>> THEN acc ELSE ParseUint(Tail(s), acc * 10 + (Head(s) - 48))

ParseInt(s) == IF s # <<>> /\ Head(s) = 45 THEN -ParseUint(Tail(s), 0) ELSE ParseUint(s, 0)

(***************************************************************************)
(* unicode/utf8 as encoding/json uses it.  RuneSize(s, i) is the size of   *)
(* the well-formed UTF-8 sequence that starts at s[i], or 0 when           *)
(* utf8.DecodeRune would return (RuneError, 1) there.                      *)
(***************************************************************************)
IsCont(s, i, lo, hi) == i <= Len(s) /\ s[i] >= lo /\ s[i] <= hi

RuneSize(s, i) ==
    LET b == s[i] IN
    IF b < 128 THEN 1
    ELSE IF b >= 194 /\ b <= 223
         THEN IF IsCont(s, i + 1, 128, 191) THEN 2 ELSE 0
    ELSE IF b >= 224 /\ b <= 239
         THEN IF /\ IsCont(s, i + 1, IF b = 224 THEN 160 ELSE 128, IF b = 237 THEN 159 ELSE 191)
                 /\ IsCont(s, i + 2, 128, 191)
              THEN 3 ELSE 0
    ELSE IF b >= 240 /\ b <= 244
         THEN IF /\ IsCont(s, i + 1, IF b = 240 THEN 144 ELSE 128, IF b = 244 THEN 143 ELSE 191)
                 /\ IsCont(s, i + 2, 128, 191)
                 /\ IsCont(s, i + 3, 128, 191)
              THEN 4 ELSE 0
    ELSE 0

RuneErrorBytes == <<239, 191, 189>>     \* U+FFFD in UTF-8
HexDigit(n) == IF n < 10 THEN 48 + n ELSE 87 + n                \* "0123456789abcdef"[n]
HexValue(b) == IF b >= 48 /\ b <= 57 THEN b - 48
               ELSE IF b >= 97 /\ b <= 102 THEN b - 87 ELSE b - 55

\* utf8.EncodeRune; a surrogate becomes U+FFFD
EncodeRune(r) ==
    IF r < 128 THEN <<r>>
    ELSE IF r < 2048 THEN <<192 + (r \div 64), 128 + (r % 64)>>
    ELSE IF r >= 55296 /\ r <= 57343 THEN RuneErrorBytes
    ELSE IF r < 65536 THEN <<224 + (r \div 4096), 128 + ((r \div 64) % 64), 128 + (r % 64)>>
    ELSE <<240 + (r \div 262144), 128 + ((r \div 4096) % 64), 128 + ((r \div 64) % 64), 128 + (r % 64)>>

(***************************************************************************)
(* encoding/json, string values.  JSONQuote is the text between the quotes *)
(* that json.MarshalIndent writes for a Go string (HTML escaping on,       *)
(* invalid UTF-8 coerced to U+FFFD); JSONUnquote is what json.Unmarshal *)
(* reads back from such a text or from one another program wrote.  The     *)
(* escapes are those of Go 1.22 and later, which writes \b and \f; older   *)
(* releases wrote the same two bytes as \u0008 and \u000c.                 *)
(***************************************************************************)
HtmlSafe(b) == b >= 32 /\ b < 128 /\ b \notin {34, 92, 60, 62, 38}

QuoteByte(b) ==
    IF b \in {34, 92} THEN <<92, b>>
    ELSE IF b = 10 THEN <<92, 110>>
    ELSE IF b = 13 THEN <<92, 114>>
    ELSE IF b = 9 THEN <<92, 116>>
    ELSE IF b = 8 THEN <<92, 98>>
    ELSE IF b = 12 THEN <<92, 102>>
    ELSE <<92, 117, 48, 48, HexDigit(b \div 16), HexDigit(b % 16)>>

RECURSIVE QuoteFrom(_, _)
QuoteFrom(s, i) ==
    IF i > Len(s) THEN <<>>
    ELSE IF s[i] < 128
         THEN (IF HtmlSafe(s[i]) THEN <<s[i]>> ELSE QuoteByte(s[i])) \o QuoteFrom(s, i + 1)
    ELSE LET size == RuneSize(s, i) IN
         IF size = 0 THEN <<92, 117, 102, 102, 102, 100>> \o QuoteFrom(s, i + 1)
         ELSE IF size = 3 /\ s[i] = 226 /\ s[i + 1] = 128 /\ s[i + 2] \in {168, 169}
              THEN <<92, 117, 50, 48, 50, HexDigit(s[i + 2] % 16)>> \o QuoteFrom(s, i + 3)
         ELSE SubSeq(s, i, i + size - 1) \o QuoteFrom(s, i + size)

JSONQuote(s) == IF \A i \in 1..Len(s) : HtmlSafe(s[i]) THEN s ELSE QuoteFrom(s, 1)

UnquoteEscape(c) ==
    IF c = 98 THEN 8 ELSE IF c = 102 THEN 12 ELSE IF c = 110 THEN 10
    ELSE IF c = 114 THEN 13 ELSE IF c = 116 THEN 9 ELSE c

IsHex(b) == (b >= 48 /\ b <= 57) \/ (b >= 97 /\ b <= 102) \/ (b >= 65 /\ b <= 70)

\* getu4: the code unit of the escape \uXXXX that starts at s[i], or -1 when there is none
getu4(s, i) ==
    IF i + 5 <= Len(s) /\ s[i] = 92 /\ s[i + 1] = 117 /\ \A k \in 2..5 : IsHex(s[i + k])
    THEN 4096 * HexValue(s[i + 2]) + 256 * HexValue(s[i + 3])
            + 16 * HexValue(s[i + 4]) + HexValue(s[i + 5])
    ELSE -1

IsSurrogate(r) == r >= 55296 /\ r <= 57343

\* utf16.DecodeRune: the code point of a surrogate pair, U+FFFD for anything else
DecodeRune(r1, r2) ==
    IF r1 >= 55296 /\ r1 < 56320 /\ r2 >= 56320 /\ r2 < 57344
    THEN (r1 - 55296) * 1024 + (r2 - 56320) + 65536
    ELSE 65533

RECURSIVE UnquoteFrom(_, _)
UnquoteFrom(s, i) ==
    IF i > Len(s) THEN <<>>
    ELSE IF s[i] = 92
         THEN IF s[i + 1] = 117
              THEN LET rr == getu4(s, i)
                       rr1 == getu4(s, i + 6)
                   IN  IF IsSurrogate(rr) /\ DecodeRune(rr, rr1) # 65533
                       THEN EncodeRune(DecodeRune(rr, rr1)) \o UnquoteFrom(s, i + 12)
                       ELSE EncodeRune(rr) \o UnquoteFrom(s, i + 6)
              ELSE <<UnquoteEscape(s[i + 1])>> \o UnquoteFrom(s, i + 2)
    ELSE IF s[i] < 128 THEN <<s[i]>> \o UnquoteFrom(s, i + 1)
    ELSE LET size == RuneSize(s, i) IN
         IF size = 0 THEN RuneErrorBytes \o UnquoteFrom(s, i + 1)
         ELSE SubSeq(s, i, i + size - 1) \o UnquoteFrom(s, i + size)

JSONUnquote(s) == IF \A i \in 1..Len(s) : s[i] < 128 /\ s[i] # 92 THEN s ELSE UnquoteFrom(s, 1)


(***************************************************************************)
(* The data model: Combatant and CombatTracker (lines 15..37), with the    *)
(* field names of the Go structs.                                          *)
(***************************************************************************)
Combatant(name, initiative, maxHP, isPlayer) ==
    [Name |-> name, Initiative |-> initiative, MaxHP |-> maxHP, CurrentHP |-> maxHP,
     IsPlayer |-> isPlayer, IsConscious |-> TRUE, TemporaryHP |-> 0, StatusEffects |-> <<>>]

NewCombatTracker ==
    [Combatants |-> <<>>, Round |-> 0, CurrentTurnIdx |-> -1, IsActive |-> FALSE,
     CampaignName |-> DefaultCampaign, EncounterName |-> UnknownEncounter,
     SaveFilePath |-> <<>>, StatusEffects |-> defaultEffects]

\* the bounds check every indexed method starts with: !(index < 0 || index >= len(ct.Combatants))
ValidIndex(t, index) == index >= 0 /\ index < Len(t.Combatants)

(***************************************************************************)
(* SortByInitiative.  sort.Slice orders by less(i, j) = Initiative[i] >    *)
(* Initiative[j] and is documented as not stable: the result is some       *)
(* permutation of the slice in which no element is less than one before    *)
(* it, and which one among equal initiatives is the library's choice.      *)
(* The operator is the set of the results sort.Slice may leave.            *)
(***************************************************************************)
Less(a, b) == a.Initiative > b.Initiative

Bijections(n) == {f \in [1..n -> 1..n] : \A i, j \in 1..n : i # j => f[i] # f[j]}

\* variant: the comparison reversed, lowest initiative first
SortAscending(cs) ==
    {[i \in 1..Len(cs) |-> cs[f[i]]] : f \in
        {g \in Bijections(Len(cs)) : \A i, j \in 1..Len(cs) : i < j => ~Less(cs[g[i]], cs[g[j]])}}

SortByInitiative(cs) ==
    {[i \in 1..Len(cs) |-> cs[f[i]]] : f \in
        {g \in Bijections(Len(cs)) : \A i, j \in 1..Len(cs) : i < j => ~Less(cs[g[j]], cs[g[i]])}}

\* variant: damage taken from current HP alone, temporary HP left as it is
ApplyDamageToCurrentHP(c, amount) ==
    LET hp == IntAdd(Wide(c.CurrentHP), Wide(amount))
    IN  IF ~IntPositive(hp)
        THEN [c EXCEPT !.CurrentHP = 0, !.IsConscious = FALSE]
        ELSE [c EXCEPT !.CurrentHP = Narrow(hp)]

\* variant: healing without the cap at MaxHP
ApplyHealingUncapped(c, amount) ==
    LET hp == IntAdd(Wide(c.CurrentHP), Wide(amount))
    IN  IF ~c.IsConscious /\ IntPositive(hp)
        THEN [c EXCEPT !.CurrentHP = Narrow(hp), !.IsConscious = TRUE]
        ELSE [c EXCEPT !.CurrentHP = Narrow(hp)]

\* variant: healing that never restores consciousness
ApplyHealingStaysDown(c, amount) ==
    LET sum == IntAdd(Wide(c.CurrentHP), Wide(amount))
    IN  [c EXCEPT !.CurrentHP = IF IntLess(Wide(c.MaxHP), sum) THEN c.MaxHP ELSE Narrow(sum)]

\* variant: current HP floored at 0 with the combatant left conscious
ApplyDamageStaysConscious(c, amount) ==
    LET damage0 == IntNeg(Wide(amount))
        tempHP == Wide(c.TemporaryHP)
        covered == ~IntLess(tempHP, damage0)
        damage == IF covered THEN Wide(0) ELSE IntSub(damage0, tempHP)
        temp == IF covered THEN IntSub(tempHP, damage0) ELSE Wide(0)
        hp == IntSub(Wide(c.CurrentHP), damage)
    IN  [c EXCEPT !.TemporaryHP = Narrow(temp), !.CurrentHP = IF IntPositive(hp) THEN Narrow(hp) ELSE 0]

(***************************************************************************)
(* AdjustHP's arithmetic on one combatant (lines 153..189), in the int of  *)
(* the build: the negation of line 155, the subtractions of lines 160, 163 *)
(* and 170 and the addition of line 181 wrap around at its width.  What is *)
(* stored is within MinInt32..MaxInt32 on either build: at 64 bits damage  *)
(* is 1 or more, so that temporaryHP and a positive currentHP only go      *)
(* down, and a sum of healing above MaxHP is replaced by MaxHP.            *)
(***************************************************************************)
ApplyDamage(c, amount) ==
    LET damage0 == IntNeg(Wide(amount))
        tempHP == Wide(c.TemporaryHP)
        absorbed == c.TemporaryHP > 0
        covered == ~IntLess(tempHP, damage0)
        temp == IF absorbed
                THEN (IF covered THEN IntSub(tempHP, damage0) ELSE Wide(0))
                ELSE tempHP
        damage == IF absorbed
                  THEN (IF covered THEN Wide(0) ELSE IntSub(damage0, tempHP))
                  ELSE damage0
        hp == IF IntPositive(damage) THEN IntSub(Wide(c.CurrentHP), damage) ELSE Wide(c.CurrentHP)
    IN  IF ~IntPositive(hp)
        THEN [c EXCEPT !.TemporaryHP = Narrow(temp), !.CurrentHP = 0, !.IsConscious = FALSE]
        ELSE [c EXCEPT !.TemporaryHP = Narrow(temp), !.CurrentHP = Narrow(hp)]

ApplyHealing(c, amount) ==
    LET sum == IntAdd(Wide(c.CurrentHP), Wide(amount))
        hp == IF IntLess(Wide(c.MaxHP), sum) THEN c.MaxHP ELSE Narrow(sum)
    IN  IF ~c.IsConscious /\ hp > 0
        THEN [c EXCEPT !.CurrentHP = hp, !.IsConscious = TRUE]
        ELSE [c EXCEPT !.CurrentHP = hp]

AdjustCombatantHP(c, amount) == IF amount < 0 THEN ApplyDamage(c, amount) ELSE ApplyHealing(c, amount)

\* variant: the amount given replaces what is there
TakeTemporaryHPReplacing(c, amount) == [c EXCEPT !.TemporaryHP = amount]

\* AddTemporaryHP, lines 210..216: temporary HP does not stack, the higher value is kept
TakeTemporaryHP(c, amount) ==
    IF amount > c.TemporaryHP THEN [c EXCEPT !.TemporaryHP = amount] ELSE c

(***************************************************************************)
(* RemoveStatusEffect's loop (lines 246..257): the first entry equal to    *)
(* effect is overwritten by the last entry and the slice loses its last    *)
(* element.  FirstMatch is 0 when the loop finds nothing.                  *)
(***************************************************************************)
FirstMatch(effects, effect) ==
    IF \E i \in 1..Len(effects) : effects[i] = effect
    THEN CHOOSE i \in 1..Len(effects) :
            /\ effects[i] = effect
            /\ \A j \in 1..(i - 1) : effects[j] # effect
    ELSE 0

\* variant: every entry equal to the one found is dropped
RemoveEveryMatch(effects, i) == SelectSeq(effects, LAMBDA e : e # effects[i])

SwapRemove(effects, i) ==
    SubSeq([effects EXCEPT ![i] = effects[Len(effects)]], 1, Len(effects) - 1)

(***************************************************************************)
(* DuplicateCombatant's naming (lines 441..463).  The loop at 448..454     *)
(* walks the name from its last byte towards the first while it sees       *)
(* digits, doing lastNumber = lastNumber*10 + digit at each.               *)
(***************************************************************************)
IsDigit(b) == b >= 48 /\ b <= 57

RECURSIVE LastNumberFrom(_, _, _)
LastNumberFrom(name, i, lastNumber) ==
    IF i >= 1 /\ IsDigit(name[i])
    THEN LastNumberFrom(name, i - 1, lastNumber * 10 + (name[i] - 48))
    ELSE lastNumber

LastNumber(name) == LastNumberFrom(name, Len(name), 0)

\* strings.TrimRight(s, cutset)
RECURSIVE TrimRight(_, _)
TrimRight(s, cutset) ==
    IF s # <<>> /\ (\E k \in 1..Len(cutset) : cutset[k] = s[Len(s)])
    THEN TrimRight(SubSeq(s, 1, Len(s) - 1), cutset)
    ELSE s

BaseName(name) == IF LastNumber(name) > 0 THEN TrimRight(name, DigitCutset) ELSE name

\* fmt.Sprintf("%s%d", baseName, lastNumber+i+1) for the loop's i (0-based)
CopyName(name, i) == BaseName(name) \o Itoa(LastNumber(name) + i + 1)

\* variant: the copies take the original as it stands
CopiesAsIs(original, count) ==
    [i \in 1..Max(count, 0) |-> [original EXCEPT !.Name = CopyName(original.Name, i - 1)]]

Copies(original, count) ==
    [i \in 1..Max(count, 0) |->
        Combatant(CopyName(original.Name, i - 1), original.Initiative, original.MaxHP, original.IsPlayer)]


(***************************************************************************)
(* The persistence gateway.  A file is [kind, data]: kind "json" with the  *)
(* JSON document as a record (object keys are record fields, strings are   *)
(* their quoted text, numbers their decimal text), or kind "garbage" for   *)
(* bytes json.Unmarshal rejects.  fs maps the paths that exist to files.   *)
(* The clock shows the instants of Instants one after the other; each is   *)
(* given in the two layouts the program formats it in.  The time stamp     *)
(* goes into the document and into a generated file name, and is never     *)
(* read back into the state.  The clock moves between two commands and     *)
(* while the save command waits at its prompt between its two readings.    *)
(***************************************************************************)
Instants ==
    << [saveTime  |-> <<50,48,50,52,45,48,49,45,50,48,84,49,53,58,51,48,58,52,53,90>>,    \* "2024-01-20T15:30:45Z"
        fileStamp |-> <<50,48,50,52,45,48,49,45,50,48,95,49,53,45,51,48,45,52,53>>],      \* "2024-01-20_15-30-45"
       [saveTime  |-> <<50,48,50,52,45,48,49,45,50,48,84,49,53,58,51,48,58,53,50,90>>,    \* seven seconds later
        fileStamp |-> <<50,48,50,52,45,48,49,45,50,48,95,49,53,45,51,48,45,53,50>>] >>

\* the save time of a file that was on the disk before the process started
SaveTimeBefore == <<50,48,50,52,45,48,49,45,49,51,84,49,57,58,48,53,58,49,48,90>>           \* "2024-01-13T19:05:10Z"

SaveTimeNow == Instants[now].saveTime       \* time.Now().Format(time.RFC3339)
FileStampNow == Instants[now].fileStamp     \* time.Now().Format("2006-01-02_15-04-05")

\* how far the clock can move on while the program waits at a prompt
Waits == 0..(Len(Instants) - now)

Garbage == [kind |-> "garbage", data |-> [truncated |-> TRUE]]
JSONFile(doc) == [kind |-> "json", data |-> doc]

QuoteAll(ss) == [i \in 1..Len(ss) |-> JSONQuote(ss[i])]
UnquoteAll(ss) == [i \in 1..Len(ss) |-> JSONUnquote(ss[i])]

\* json.Marshal of one Combatant (struct tags of lines 17..24)
MarshalCombatant(c) ==
    [name |-> JSONQuote(c.Name), initiative |-> Itoa(c.Initiative), maxHP |-> Itoa(c.MaxHP),
     currentHP |-> Itoa(c.CurrentHP), isPlayer |-> c.IsPlayer, isConscious |-> c.IsConscious,
     temporaryHP |-> Itoa(c.TemporaryHP), statusEffects |-> QuoteAll(c.StatusEffects)]

\* json.Marshal of the CombatTracker (struct tags of lines 29..36; SaveFilePath is json:"-")
MarshalTracker(t) ==
    [combatants |-> [i \in 1..Len(t.Combatants) |-> MarshalCombatant(t.Combatants[i])],
     round |-> Itoa(t.Round), currentTurnIdx |-> Itoa(t.CurrentTurnIdx), isActive |-> t.IsActive,
     campaignName |-> JSONQuote(t.CampaignName), encounterName |-> JSONQuote(t.EncounterName),
     statusEffects |-> QuoteAll(t.StatusEffects)]

\* the SaveState document SaveToFile builds and marshals (lines 329..336) when
\* its time.Now() shows the given instant
SerializeAt(t, instant) ==
    [combatTracker |-> MarshalTracker(t), saveTime |-> JSONQuote(Instants[instant].saveTime),
     version |-> JSONQuote(VersionString)]

\* the same, called without a wait since the state was taken
Serialize(t) == SerializeAt(t, now)

\* json.Unmarshal into a zero value: a key the document lacks leaves the field zero
StringField(o, k) == IF k \in DOMAIN o THEN JSONUnquote(o[k]) ELSE <<>>
IntField(o, k) == IF k \in DOMAIN o THEN ParseInt(o[k]) ELSE 0
BoolField(o, k) == IF k \in DOMAIN o THEN o[k] ELSE FALSE
StringsField(o, k) == IF k \in DOMAIN o THEN UnquoteAll(o[k]) ELSE <<>>

UnmarshalCombatant(o) ==
    [Name |-> StringField(o, "name"), Initiative |-> IntField(o, "initiative"),
     MaxHP |-> IntField(o, "maxHP"), CurrentHP |-> IntField(o, "currentHP"),
     IsPlayer |-> BoolField(o, "isPlayer"), IsConscious |-> BoolField(o, "isConscious"),
     TemporaryHP |-> IntField(o, "temporaryHP"), StatusEffects |-> StringsField(o, "statusEffects")]

\* variant: the roster is not read back
UnmarshalTrackerWithoutRoster(o) ==
    [Combatants |-> <<>>,
     Round |-> IntField(o, "round"), CurrentTurnIdx |-> IntField(o, "currentTurnIdx"),
     IsActive |-> BoolField(o, "isActive"),
     CampaignName |-> StringField(o, "campaignName"), EncounterName |-> StringField(o, "encounterName"),
     SaveFilePath |-> <<>>, StatusEffects |-> StringsField(o, "statusEffects")]

UnmarshalTracker(o) ==
    [Combatants |-> IF "combatants" \in DOMAIN o
                    THEN [i \in 1..Len(o.combatants) |-> UnmarshalCombatant(o.combatants[i])]
                    ELSE <<>>,
     Round |-> IntField(o, "round"), CurrentTurnIdx |-> IntField(o, "currentTurnIdx"),
     IsActive |-> BoolField(o, "isActive"),
     CampaignName |-> StringField(o, "campaignName"), EncounterName |-> StringField(o, "encounterName"),
     SaveFilePath |-> <<>>, StatusEffects |-> StringsField(o, "statusEffects")]

(***************************************************************************)
(* ioutil.WriteFile(filename, data, 0644) opens the file with O_TRUNC and  *)
(* writes.  outcome is what the environment lets happen: "ok"; "openfail"  *)
(* (the open fails, the file is as it was); "writefail" (the write fails   *)
(* after the truncation, leaving a prefix of the document).                *)
(***************************************************************************)
WriteOutcomes == {"ok", "openfail", "writefail"}

WriteFile(files, filename, doc, outcome) ==
    IF outcome = "openfail" THEN files
    ELSE [p \in DOMAIN files \cup {filename} |->
            IF p = filename THEN (IF outcome = "ok" THEN JSONFile(doc) ELSE Garbage)
            ELSE files[p]]

\* SaveToFile(filename): the files after the call; its error is outcome # "ok"
SaveToFile(t, files, filename, outcome) == WriteFile(files, filename, Serialize(t), outcome)

\* SaveToFile(filename) called when the clock has moved on to the given instant
SaveToFileAt(t, files, filename, outcome, instant) ==
    WriteFile(files, filename, SerializeAt(t, instant), outcome)

\* AutoSave: nothing without a configured path, else SaveToFile whose error is only printed
AutoSave(t, files, outcome) ==
    IF t.SaveFilePath = <<>> THEN files ELSE SaveToFile(t, files, t.SaveFilePath, outcome)

AutoSaveWrite(t, outcome) == IF t.SaveFilePath = <<>> THEN "none" ELSE outcome

\* variant: the fourteen conditions without the "Custom Status Effect" entry
PresetConditions == SubSeq(defaultEffects, 1, 14)

\* the defaultEffects literal of LoadFromFile (lines 384..400), written out a second time there
defaultEffectsOnLoad ==
    << <<66,108,105,110,100,101,100>>,                          \* "Blinded"
       <<67,104,97,114,109,101,100>>,                           \* "Charmed"
       <<68,101,97,102,101,110,101,100>>,                       \* "Deafened"
       <<70,114,105,103,104,116,101,110,101,100>>,              \* "Frightened"
       <<71,114,97,112,112,108,101,100>>,                       \* "Grappled"
       <<73,110,99,97,112,97,99,105,116,97,116,101,100>>,       \* "Incapacitated"
       <<73,110,118,105,115,105,98,108,101>>,                   \* "Invisible"
       <<80,97,114,97,108,121,122,101,100>>,                    \* "Paralyzed"
       <<80,101,116,114,105,102,105,101,100>>,                  \* "Petrified"
       <<80,111,105,115,111,110,101,100>>,                      \* "Poisoned"
       <<80,114,111,110,101>>,                                  \* "Prone"
       <<82,101,115,116,114,97,105,110,101,100>>,               \* "Restrained"
       <<83,116,117,110,110,101,100>>,                          \* "Stunned"
       <<85,110,99,111,110,115,99,105,111,117,115>>,            \* "Unconscious"
       <<67,117,115,116,111,109,32,83,116,97,116,117,115,32,69,102,102,101,99,116>> >> \* "Custom Status Effect"

\* LoadFromFile(filename): [err, tracker]; err when the file cannot be read or parsed
LoadFromFile(files, filename) ==
    IF filename \notin DOMAIN files \/ files[filename].kind # "json"
    THEN [err |-> TRUE, tracker |-> NewCombatTracker]
    ELSE LET decoded == UnmarshalTracker(IF "combatTracker" \in DOMAIN files[filename].data
                                         THEN files[filename].data.combatTracker
                                         ELSE [isActive |-> FALSE])
             withPath == [decoded EXCEPT !.SaveFilePath = filename]
         IN  [err |-> FALSE,
              tracker |-> IF Len(withPath.StatusEffects) = 0
                          THEN [withPath EXCEPT !.StatusEffects = defaultEffectsOnLoad]
                          ELSE withPath]


(***************************************************************************)
(* The Engine methods as actions.  Every method that reaches its last line *)
(* ends with ct.AutoSave(); w is the outcome the environment gives that    *)
(* write.  A method that returns early changes nothing and saves nothing.  *)
(***************************************************************************)
Op(name, index, n, applied) == [op |-> name, index |-> index, n |-> n, applied |-> applied]

Tick == IF steps < MaxSteps THEN steps + 1 ELSE steps

\* variant: a failed auto-save undoes the change
CommitOrRollBack(t, w, op) ==
    /\ ct' = IF AutoSaveWrite(t, w) \in {"openfail", "writefail"} THEN ct ELSE t
    /\ fs' = AutoSave(t, fs, w)
    /\ lastWrite' = AutoSaveWrite(t, w)
    /\ lastOp' = op
    /\ pc' = pc
    /\ steps' = Tick
    /\ UNCHANGED <<now, intSize>>

\* the method leaves the tracker as t and calls ct.AutoSave()
Commit(t, w, op) ==
    /\ ct' = t
    /\ fs' = AutoSave(t, fs, w)
    /\ lastWrite' = AutoSaveWrite(t, w)
    /\ lastOp' = op
    /\ pc' = pc
    /\ steps' = Tick
    /\ UNCHANGED <<now, intSize>>

\* variant: the method auto-saves before it returns
ReturnSaved(op) ==
    /\ UNCHANGED <<ct, pc>>
    /\ fs' = AutoSave(ct, fs, "ok")
    /\ lastWrite' = AutoSaveWrite(ct, "ok")
    /\ lastOp' = op
    /\ steps' = Tick
    /\ UNCHANGED <<now, intSize>>

\* the method prints its message and returns
Return(op) ==
    /\ UNCHANGED <<ct, fs, pc>>
    /\ lastWrite' = "none"
    /\ lastOp' = op
    /\ steps' = Tick
    /\ UNCHANGED <<now, intSize>>

\* variant: during combat the new combatant goes in just before the current turn,
\* which stays with the combatant that has it
AddCombatantBehindTheTurn(name, initiative, maxHP, isPlayer, w) ==
    /\ pc = "loop"
    /\ UNCHANGED started
    /\ IF ct.IsActive /\ ValidIndex(ct, ct.CurrentTurnIdx)
       THEN Commit([ct EXCEPT !.Combatants = SubSeq(@, 1, ct.CurrentTurnIdx)
                                               \o <<Combatant(name, initiative, maxHP, isPlayer)>>
                                               \o SubSeq(@, ct.CurrentTurnIdx + 1, Len(@)),
                              !.CurrentTurnIdx = @ + 1],
                   w, Op("AddCombatant", Len(ct.Combatants), maxHP, TRUE))
       ELSE Commit([ct EXCEPT !.Combatants = Append(@, Combatant(name, initiative, maxHP, isPlayer))],
                   w, Op("AddCombatant", Len(ct.Combatants), maxHP, TRUE))

\* variant: a combatant without a name or without hit points is refused
AddCombatantValidated(name, initiative, maxHP, isPlayer, w) ==
    /\ pc = "loop"
    /\ UNCHANGED started
    /\ IF name = <<>> \/ maxHP < 1
       THEN Return(Op("AddCombatant", Len(ct.Combatants), maxHP, FALSE))
       ELSE Commit([ct EXCEPT !.Combatants = Append(@, Combatant(name, initiative, maxHP, isPlayer))],
                   w, Op("AddCombatant", Len(ct.Combatants), maxHP, TRUE))

\* variant: the new combatant goes in front of the roster
AddCombatantInFront(name, initiative, maxHP, isPlayer, w) ==
    /\ pc = "loop"
    /\ Commit([ct EXCEPT !.Combatants = <<Combatant(name, initiative, maxHP, isPlayer)>> \o @],
              w, Op("AddCombatant", Len(ct.Combatants), maxHP, TRUE))
    /\ UNCHANGED started

AddCombatant(name, initiative, maxHP, isPlayer, w) ==
    /\ pc = "loop"
    /\ Commit([ct EXCEPT !.Combatants = Append(@, Combatant(name, initiative, maxHP, isPlayer))],
              w, Op("AddCombatant", Len(ct.Combatants), maxHP, TRUE))
    /\ UNCHANGED started

\* variant: combat starts without the round being set
StartCombatKeepsRound(w) ==
    /\ pc = "loop"
    /\ IF Len(ct.Combatants) = 0
       THEN Return(Op("StartCombat", -1, ct.Round, FALSE)) /\ UNCHANGED started
       ELSE \E sorted \in SortByInitiative(ct.Combatants) :
                /\ Commit([ct EXCEPT !.Combatants = sorted, !.CurrentTurnIdx = 0, !.IsActive = TRUE],
                          w, Op("StartCombat", -1, ct.Round, TRUE))
                /\ started' = TRUE

\* variant: a combat started again goes on from the round it was ended in
StartCombatResumes(w) ==
    /\ pc = "loop"
    /\ IF Len(ct.Combatants) = 0
       THEN Return(Op("StartCombat", -1, ct.Round, FALSE)) /\ UNCHANGED started
       ELSE \E sorted \in SortByInitiative(ct.Combatants) :
                /\ Commit([ct EXCEPT !.Combatants = sorted, !.Round = Max(@, 1),
                                     !.CurrentTurnIdx = 0, !.IsActive = TRUE],
                          w, Op("StartCombat", -1, ct.Round, TRUE))
                /\ started' = TRUE

\* the n of StartCombat's record is the round the call found
StartCombat(w) ==
    /\ pc = "loop"
    /\ IF Len(ct.Combatants) = 0
       THEN Return(Op("StartCombat", -1, ct.Round, FALSE)) /\ UNCHANGED started
       ELSE \E sorted \in SortByInitiative(ct.Combatants) :
                /\ Commit([ct EXCEPT !.Combatants = sorted, !.Round = 1,
                                     !.CurrentTurnIdx = 0, !.IsActive = TRUE],
                          w, Op("StartCombat", -1, ct.Round, TRUE))
                /\ started' = TRUE

\* variant: every turn counts as a round
AdvanceCountsEveryTurn(t) ==
    IF t.CurrentTurnIdx + 1 >= Len(t.Combatants)
    THEN [t EXCEPT !.Round = @ + 1, !.CurrentTurnIdx = 0]
    ELSE [t EXCEPT !.Round = @ + 1, !.CurrentTurnIdx = @ + 1]

\* variant: the wrap to the first combatant without the round increment
AdvanceKeepsRound(t) ==
    IF t.CurrentTurnIdx + 1 >= Len(t.Combatants)
    THEN [t EXCEPT !.CurrentTurnIdx = 0]
    ELSE [t EXCEPT !.CurrentTurnIdx = @ + 1]

\* variant: the wrap one turn late
AdvancePastEnd(t) ==
    IF t.CurrentTurnIdx + 1 > Len(t.Combatants)
    THEN [t EXCEPT !.Round = @ + 1, !.CurrentTurnIdx = 0]
    ELSE [t EXCEPT !.CurrentTurnIdx = @ + 1]

\* variant: a combatant at 0 HP loses the turn to the one behind
AdvancePastTheFallen(t) ==
    LET n == Len(t.Combatants)
        i == t.CurrentTurnIdx + 1
        j == IF i < n /\ t.Combatants[i + 1].CurrentHP = 0 THEN i + 1 ELSE i
    IN  IF j >= n
        THEN [t EXCEPT !.Round = @ + 1, !.CurrentTurnIdx = 0]
        ELSE [t EXCEPT !.CurrentTurnIdx = j]

\* variant: the turn passes over a combatant who is unconscious
AdvanceSkipsUnconscious(t) ==
    LET step(u) == IF u.CurrentTurnIdx + 1 >= Len(u.Combatants)
                   THEN [u EXCEPT !.Round = @ + 1, !.CurrentTurnIdx = 0]
                   ELSE [u EXCEPT !.CurrentTurnIdx = @ + 1]
        next == step(t)
    IN  IF ValidIndex(next, next.CurrentTurnIdx) /\ ~next.Combatants[next.CurrentTurnIdx + 1].IsConscious
        THEN step(next)
        ELSE next

\* the tracker after lines 131..136
Advance(t) ==
    IF t.CurrentTurnIdx + 1 >= Len(t.Combatants)
    THEN [t EXCEPT !.Round = @ + 1, !.CurrentTurnIdx = 0]
    ELSE [t EXCEPT !.CurrentTurnIdx = @ + 1]

NextTurn(w) ==
    /\ pc = "loop"
    /\ UNCHANGED started
    /\ IF ~ct.IsActive
       THEN Return(Op("NextTurn", -1, 0, FALSE))
       ELSE IF ValidIndex(Advance(ct), Advance(ct).CurrentTurnIdx)
            THEN Commit(Advance(ct), w, Op("NextTurn", -1, 0, TRUE))
            ELSE \* line 138 indexes ct.Combatants out of range: the process panics
                 /\ ct' = Advance(ct)
                 /\ pc' = "panic"
                 /\ lastWrite' = "none"
                 /\ lastOp' = Op("NextTurn", -1, 0, TRUE)
                 /\ steps' = Tick
                 /\ UNCHANGED <<now, intSize>>
                 /\ UNCHANGED fs

\* variant: the amount is applied to every combatant of the roster
AdjustHPOfAll(index, amount, w) ==
    /\ pc = "loop"
    /\ UNCHANGED started
    /\ IF ~ValidIndex(ct, index)
       THEN Return(Op("AdjustHP", index, amount, FALSE))
       ELSE Commit([ct EXCEPT !.Combatants = [i \in 1..Len(@) |-> AdjustCombatantHP(@[i], amount)]],
                   w, Op("AdjustHP", index, amount, TRUE))

AdjustHP(index, amount, w) ==
    /\ pc = "loop"
    /\ UNCHANGED started
    /\ IF ~ValidIndex(ct, index)
       THEN Return(Op("AdjustHP", index, amount, FALSE))
       ELSE Commit([ct EXCEPT !.Combatants[index + 1] = AdjustCombatantHP(@, amount)],
                   w, Op("AdjustHP", index, amount, TRUE))

\* variant: auto-save only when the temporary HP changed
AddTemporaryHPSavesOnChange(index, amount, w) ==
    /\ pc = "loop"
    /\ UNCHANGED started
    /\ IF ~ValidIndex(ct, index)
       THEN Return(Op("AddTemporaryHP", index, amount, FALSE))
       ELSE IF amount > ct.Combatants[index + 1].TemporaryHP
            THEN Commit([ct EXCEPT !.Combatants[index + 1] = TakeTemporaryHP(@, amount)],
                        w, Op("AddTemporaryHP", index, amount, TRUE))
            ELSE Return(Op("AddTemporaryHP", index, amount, TRUE))

AddTemporaryHP(index, amount, w) ==
    /\ pc = "loop"
    /\ UNCHANGED started
    /\ IF ~ValidIndex(ct, index)
       THEN Return(Op("AddTemporaryHP", index, amount, FALSE))
       ELSE Commit([ct EXCEPT !.Combatants[index + 1] = TakeTemporaryHP(@, amount)],
                   w, Op("AddTemporaryHP", index, amount, TRUE))

AddStatusEffect(index, effect, w) ==
    /\ pc = "loop"
    /\ UNCHANGED started
    /\ IF ~ValidIndex(ct, index)
       THEN Return(Op("AddStatusEffect", index, 0, FALSE))
       ELSE Commit([ct EXCEPT !.Combatants[index + 1].StatusEffects = Append(@, effect)],
                   w, Op("AddStatusEffect", index, 0, TRUE))

\* variant: the auto-save after the loop, reached whether or not an entry matched
RemoveStatusEffectSavesAfterLoop(index, effect, w) ==
    /\ pc = "loop"
    /\ UNCHANGED started
    /\ IF ~ValidIndex(ct, index)
       THEN Return(Op("RemoveStatusEffect", index, 0, FALSE))
       ELSE LET i == FirstMatch(ct.Combatants[index + 1].StatusEffects, effect) IN
            IF i = 0
            THEN Commit(ct, w, Op("RemoveStatusEffect", index, 0, FALSE))
            ELSE Commit([ct EXCEPT !.Combatants[index + 1].StatusEffects = SwapRemove(@, i)],
                        w, Op("RemoveStatusEffect", index, i, TRUE))

RemoveStatusEffect(index, effect, w) ==
    /\ pc = "loop"
    /\ UNCHANGED started
    /\ IF ~ValidIndex(ct, index)
       THEN Return(Op("RemoveStatusEffect", index, 0, FALSE))
       ELSE LET i == FirstMatch(ct.Combatants[index + 1].StatusEffects, effect) IN
            IF i = 0
            THEN Return(Op("RemoveStatusEffect", index, 0, FALSE))
            ELSE Commit([ct EXCEPT !.Combatants[index + 1].StatusEffects = SwapRemove(@, i)],
                        w, Op("RemoveStatusEffect", index, i, TRUE))

\* variant: ending the combat resets the round and the turn
EndCombatResets(w) ==
    /\ pc = "loop"
    /\ UNCHANGED started
    /\ IF ~ct.IsActive
       THEN Return(Op("EndCombat", -1, 0, FALSE))
       ELSE Commit([ct EXCEPT !.IsActive = FALSE, !.Round = 0, !.CurrentTurnIdx = -1],
                   w, Op("EndCombat", -1, 0, TRUE))

EndCombat(w) ==
    /\ pc = "loop"
    /\ UNCHANGED started
    /\ IF ~ct.IsActive
       THEN Return(Op("EndCombat", -1, 0, FALSE))
       ELSE Commit([ct EXCEPT !.IsActive = FALSE], w, Op("EndCombat", -1, 0, TRUE))

SetEncounterDetails(campaignName, encounterName, w) ==
    /\ pc = "loop"
    /\ UNCHANGED started
    /\ Commit([ct EXCEPT !.CampaignName = campaignName, !.EncounterName = encounterName],
              w, Op("SetEncounterDetails", -1, 0, TRUE))

\* variant: the copies take the place of the original
DuplicateCombatantInPlace(index, count, w) ==
    /\ pc = "loop"
    /\ UNCHANGED started
    /\ IF ~ValidIndex(ct, index)
       THEN Return(Op("DuplicateCombatant", index, count, FALSE))
       ELSE Commit([ct EXCEPT !.Combatants = SubSeq(@, 1, index) \o Copies(ct.Combatants[index + 1], count)
                                                \o SubSeq(@, index + 2, Len(@))],
                   w, Op("DuplicateCombatant", index, count, TRUE))

DuplicateCombatant(index, count, w) ==
    /\ pc = "loop"
    /\ UNCHANGED started
    /\ IF ~ValidIndex(ct, index)
       THEN Return(Op("DuplicateCombatant", index, count, FALSE))
       ELSE Commit([ct EXCEPT !.Combatants = @ \o Copies(ct.Combatants[index + 1], count)],
                   w, Op("DuplicateCombatant", index, count, TRUE))

(***************************************************************************)
(* The command handlers of main (lines 724..875).  Each one first calls    *)
(* getCurrentOrSelectedIndex, which shows the current player before it     *)
(* prompts: during active combat line 508 reads                            *)
(* ct.Combatants[ct.CurrentTurnIdx], and the process panics when that      *)
(* index lies past the roster (a tracker loaded from a file can be so).    *)
(* index is the 0-based index the operator's line stands for: the number   *)
(* typed minus one, or the current turn for an empty line.  A line that    *)
(* is not a number makes the handler return like an index outside the      *)
(* roster does.                                                            *)
(***************************************************************************)
getCurrentOrSelectedIndex(t, index) ==
    IF t.IsActive /\ t.CurrentTurnIdx >= 0 /\ t.CurrentTurnIdx >= Len(t.Combatants) THEN "panic"
    ELSE IF index < 0 \/ index >= Len(t.Combatants) THEN "err"
    ELSE "ok"

\* the index expression of line 508 is out of range: the process dies where it stands
Panic(op) ==
    /\ pc' = "panic"
    /\ lastOp' = op
    /\ lastWrite' = "none"
    /\ steps' = Tick
    /\ UNCHANGED <<ct, fs, started, now, intSize>>

\* the handler prints the error of getCurrentOrSelectedIndex, or its own, and returns
Refuse(op) == UNCHANGED started /\ Return(op)

\* main case "4"
handleAdjustHP(index, amount, w) ==
    /\ pc = "loop"
    /\ IF getCurrentOrSelectedIndex(ct, index) = "panic"
       THEN Panic(Op("handleAdjustHP", index, amount, FALSE))
       ELSE IF getCurrentOrSelectedIndex(ct, index) = "err"
       THEN Refuse(Op("handleAdjustHP", index, amount, FALSE))
       ELSE AdjustHP(index, amount, w)

\* main case "5"
handleAddTempHP(index, amount, w) ==
    /\ pc = "loop"
    /\ IF getCurrentOrSelectedIndex(ct, index) = "panic"
       THEN Panic(Op("handleAddTempHP", index, amount, FALSE))
       ELSE IF getCurrentOrSelectedIndex(ct, index) = "err"
       THEN Refuse(Op("handleAddTempHP", index, amount, FALSE))
       ELSE AddTemporaryHP(index, amount, w)

\* main case "6": effectIndex is the number typed at the catalog menu, 0 for the
\* custom effect whose name is then read
handleAddStatusEffect(index, effectIndex, custom, w) ==
    /\ pc = "loop"
    /\ IF getCurrentOrSelectedIndex(ct, index) = "panic"
       THEN Panic(Op("handleAddStatusEffect", index, effectIndex, FALSE))
       ELSE IF \/ getCurrentOrSelectedIndex(ct, index) = "err"
               \/ effectIndex < 0 \/ effectIndex > Len(ct.StatusEffects)
       THEN Refuse(Op("handleAddStatusEffect", index, effectIndex, FALSE))
       ELSE AddStatusEffect(index, IF effectIndex = 0 THEN custom ELSE ct.StatusEffects[effectIndex], w)

\* main case "7": effectIndex is the number typed at the list of the combatant's effects
handleRemoveStatusEffect(index, effectIndex, w) ==
    /\ pc = "loop"
    /\ IF getCurrentOrSelectedIndex(ct, index) = "panic"
       THEN Panic(Op("handleRemoveStatusEffect", index, effectIndex, FALSE))
       ELSE IF \/ getCurrentOrSelectedIndex(ct, index) = "err"
               \/ Len(ct.Combatants[index + 1].StatusEffects) = 0
               \/ effectIndex < 1 \/ effectIndex > Len(ct.Combatants[index + 1].StatusEffects)
       THEN Refuse(Op("handleRemoveStatusEffect", index, effectIndex, FALSE))
       ELSE RemoveStatusEffect(index, ct.Combatants[index + 1].StatusEffects[effectIndex], w)

\* main case "13": the handler also returns on a count below 1 (line 848)
handleDuplicateCombatant(index, count, w) ==
    /\ pc = "loop"
    /\ IF getCurrentOrSelectedIndex(ct, index) = "panic"
       THEN Panic(Op("handleDuplicateCombatant", index, count, FALSE))
       ELSE IF getCurrentOrSelectedIndex(ct, index) = "err" \/ count < 1
       THEN Refuse(Op("handleDuplicateCombatant", index, count, FALSE))
       ELSE DuplicateCombatant(index, count, w)

\* variant: the initiative is overwritten and the roster never re-sorted
ChangeInitiativeUnsorted(index, newInitiative, w) ==
    /\ pc = "loop"
    /\ UNCHANGED started
    /\ IF ~ValidIndex(ct, index)
       THEN Return(Op("ChangeInitiative", index, newInitiative, FALSE))
       ELSE Commit([ct EXCEPT !.Combatants[index + 1].Initiative = newInitiative],
                   w, Op("ChangeInitiative", index, newInitiative, TRUE))

ChangeInitiative(index, newInitiative, w) ==
    /\ pc = "loop"
    /\ UNCHANGED started
    /\ IF ~ValidIndex(ct, index)
       THEN Return(Op("ChangeInitiative", index, newInitiative, FALSE))
       ELSE LET changed == [ct.Combatants EXCEPT ![index + 1].Initiative = newInitiative] IN
            \E order \in (IF ct.IsActive THEN SortByInitiative(changed) ELSE {changed}) :
                Commit([ct EXCEPT !.Combatants = order],
                       w, Op("ChangeInitiative", index, newInitiative, TRUE))

\* main case "14"
handleChangeInitiative(index, newInitiative, w) ==
    /\ pc = "loop"
    /\ IF getCurrentOrSelectedIndex(ct, index) = "panic"
       THEN Panic(Op("handleChangeInitiative", index, newInitiative, FALSE))
       ELSE IF getCurrentOrSelectedIndex(ct, index) = "err"
       THEN Refuse(Op("handleChangeInitiative", index, newInitiative, FALSE))
       ELSE ChangeInitiative(index, newInitiative, w)


(***************************************************************************)
(* main: the startup (lines 548..563) and the commands of the loop that    *)
(* touch files or the save path (cases "11", "12" and "0").                *)
(***************************************************************************)
HasSuffix(s, suffix) ==
    Len(s) >= Len(suffix) /\ SubSeq(s, Len(s) - Len(suffix) + 1, Len(s)) = suffix

\* strings.ReplaceAll(s, " ", "_")
SpacesToUnderscores(s) == [i \in 1..Len(s) |-> IF s[i] = 32 THEN 95 ELSE s[i]]

\* the default file name of case "11" when no save path is set (lines 658..661)
GeneratedFilename(t) ==
    <<99,111,109,98,97,116,95>> \o SpacesToUnderscores(t.CampaignName) \o <<95>>
        \o SpacesToUnderscores(t.EncounterName) \o <<95>> \o FileStampNow \o JsonSuffix

\* the file name case "11" saves to, for the line the operator typed
SaveFilename(t, typed) ==
    LET defaultFilename == IF t.SaveFilePath # <<>> THEN t.SaveFilePath ELSE GeneratedFilename(t)
        filename == IF typed = <<>> THEN defaultFilename ELSE typed
    IN  IF HasSuffix(filename, JsonSuffix) THEN filename ELSE filename \o JsonSuffix

\* variant: the fallback at startup writes the fresh encounter at once
StartupRewrites(args) ==
    /\ pc = "start"
    /\ pc' = "loop"
    /\ ct' = IF Len(args) > 0
             THEN (IF LoadFromFile(fs, args[1]).err
                   THEN [NewCombatTracker EXCEPT !.SaveFilePath = args[1]]
                   ELSE LoadFromFile(fs, args[1]).tracker)
             ELSE NewCombatTracker
    /\ fs' = IF Len(args) > 0 /\ LoadFromFile(fs, args[1]).err THEN AutoSave(ct', fs, "ok") ELSE fs
    /\ lastOp' = Op("Startup", -1, Len(args), Len(args) = 0 \/ ~LoadFromFile(fs, args[1]).err)
    /\ lastWrite' = "none"
    /\ started' = FALSE
    /\ UNCHANGED <<steps, now, intSize>>

\* args is os.Args[1:]: empty, or the save file path
Startup(args) ==
    /\ pc = "start"
    /\ pc' = "loop"
    /\ ct' = IF Len(args) > 0
             THEN (IF LoadFromFile(fs, args[1]).err
                   THEN [NewCombatTracker EXCEPT !.SaveFilePath = args[1]]
                   ELSE LoadFromFile(fs, args[1]).tracker)
             ELSE NewCombatTracker
    /\ lastOp' = Op("Startup", -1, Len(args), Len(args) = 0 \/ ~LoadFromFile(fs, args[1]).err)
    /\ lastWrite' = "none"
    /\ started' = FALSE
    /\ UNCHANGED <<fs, steps, now, intSize>>

\* variant: the save path is taken over whether or not the save worked
CmdSaveSetsPathAnyway(typed, wait, w) ==
    /\ pc = "loop"
    /\ wait \in Waits
    /\ now' = now + wait
    /\ fs' = SaveToFileAt(ct, fs, SaveFilename(ct, typed), w, now + wait)
    /\ ct' = [ct EXCEPT !.SaveFilePath = SaveFilename(ct, typed)]
    /\ lastOp' = Op("Save", -1, 0, w = "ok")
    /\ lastWrite' = w
    /\ steps' = Tick
    /\ UNCHANGED <<pc, started, intSize>>

\* case "11": the default file name is made (with the time of line 661 when no
\* save path is set), the program waits for the line typed at the prompt of
\* line 665 while the clock moves on by wait instants, and SaveToFile takes
\* the time again (line 331)
CmdSave(typed, wait, w) ==
    /\ pc = "loop"
    /\ wait \in Waits
    /\ now' = now + wait
    /\ fs' = SaveToFileAt(ct, fs, SaveFilename(ct, typed), w, now + wait)
    /\ ct' = IF w = "ok" THEN [ct EXCEPT !.SaveFilePath = SaveFilename(ct, typed)] ELSE ct
    /\ lastOp' = Op("Save", -1, 0, w = "ok")
    /\ lastWrite' = w
    /\ steps' = Tick
    /\ UNCHANGED <<pc, started, intSize>>

\* variant: the loaded encounter goes on saving to the old target
CmdLoadKeepsTarget(filename) ==
    /\ pc = "loop"
    /\ ct' = IF LoadFromFile(fs, filename).err THEN ct
             ELSE [LoadFromFile(fs, filename).tracker EXCEPT !.SaveFilePath = ct.SaveFilePath]
    /\ started' = IF LoadFromFile(fs, filename).err THEN started ELSE FALSE
    /\ lastOp' = Op("Load", -1, 0, ~LoadFromFile(fs, filename).err)
    /\ lastWrite' = "none"
    /\ steps' = Tick
    /\ UNCHANGED <<now, intSize>>
    /\ UNCHANGED <<pc, fs>>

\* variant: a load that fails leaves a fresh tracker, as the startup does
CmdLoadOrFresh(filename) ==
    /\ pc = "loop"
    /\ ct' = IF LoadFromFile(fs, filename).err
             THEN [NewCombatTracker EXCEPT !.SaveFilePath = filename]
             ELSE LoadFromFile(fs, filename).tracker
    /\ started' = FALSE
    /\ lastOp' = Op("Load", -1, 0, ~LoadFromFile(fs, filename).err)
    /\ lastWrite' = "none"
    /\ steps' = Tick
    /\ UNCHANGED <<now, intSize>>
    /\ UNCHANGED <<pc, fs>>

CmdLoad(filename) ==
    /\ pc = "loop"
    /\ ct' = IF LoadFromFile(fs, filename).err THEN ct ELSE LoadFromFile(fs, filename).tracker
    /\ started' = IF LoadFromFile(fs, filename).err THEN started ELSE FALSE
    /\ lastOp' = Op("Load", -1, 0, ~LoadFromFile(fs, filename).err)
    /\ lastWrite' = "none"
    /\ steps' = Tick
    /\ UNCHANGED <<now, intSize>>
    /\ UNCHANGED <<pc, fs>>

CmdExit(w) ==
    /\ pc = "loop"
    /\ pc' = "done"
    /\ fs' = AutoSave(ct, fs, w)
    /\ lastWrite' = AutoSaveWrite(ct, w)
    /\ lastOp' = Op("Exit", -1, 0, TRUE)
    /\ steps' = Tick
    /\ UNCHANGED <<now, intSize>>
    /\ UNCHANGED <<ct, started>>

\* the operator waits: the clock moves on to the next instant between two commands
TimePasses ==
    /\ pc = "loop"
    /\ now < Len(Instants)
    /\ now' = now + 1
    /\ lastOp' = Op("TimePasses", -1, 0, FALSE)
    /\ lastWrite' = "none"
    /\ UNCHANGED <<ct, fs, pc, started, steps, intSize>>

(***************************************************************************)
(* Inputs.                                                                 *)
(***************************************************************************)
Hero == <<72,101,114,111>>              \* "Hero"
Wolf == <<87,111,108,102>>              \* "Wolf"
ZoeLatin1 == <<90,111,235>>             \* "Zo\xeb": "Zoe" with a diaeresis as a Latin-1 terminal sends it
Prone == <<80,114,111,110,101>>         \* "Prone"
ProneNumber == 11                       \* the number of "Prone" in the menu of command 6
PathA == <<97,46,106,115,111,110>>      \* "a.json"
TypedB == <<98>>                        \* "b", saved as "b.json"
PathB == <<98,46,106,115,111,110>>      \* "b.json"
Campaign == <<76,77,111,80>>            \* "LMoP"
Encounter == <<80,97,115,115>>          \* "Pass"

\* a file case "11" of the older revision (no status-effect catalog) wrote for the
\* empty tracker its NewCombatTracker makes
OldFormatFile ==
    JSONFile([combatTracker |->
                 [combatants |-> <<>>, round |-> Itoa(0), currentTurnIdx |-> Itoa(-1),
                  isActive |-> FALSE, campaignName |-> JSONQuote(DefaultCampaign),
                  encounterName |-> JSONQuote(UnknownEncounter)],
              saveTime |-> JSONQuote(SaveTimeBefore), version |-> JSONQuote(VersionString)])

NoFiles == [p \in {} |-> Garbage]

Indexes == -1..Len(ct.Combatants)

\* the bounds of the model, as guards on the steps that grow something
RoomFor(n) == Len(ct.Combatants) + n <= MaxCombatants
RoundRoom == ct.Round < MaxRound \/ Advance(ct).Round = ct.Round
EffectRoom(index) == ValidIndex(ct, index) => Len(ct.Combatants[index + 1].StatusEffects) < MaxEffects

(***************************************************************************)
(* Spec: the whole program on a disk that takes every write.  The process  *)
(* starts with or without a save file argument; the operator gives every   *)
(* command of the menu, saves under the default name, reloads the save     *)
(* file and exits, at once or after a while.                               *)
(***************************************************************************)
Init ==
    /\ ct = NewCombatTracker
    /\ fs \in {NoFiles, [p \in {PathA} |-> OldFormatFile]}
    /\ pc = "start"
    /\ lastOp = Op("none", -1, 0, FALSE)
    /\ lastWrite = "none"
    /\ started = FALSE
    /\ steps = 0
    /\ now = 1
    /\ intSize = 64

More == steps < MaxSteps

Next ==
    \/ \E args \in {<<>>, <<PathA>>} : Startup(args)
    \/ More /\ RoomFor(1) /\ \E c \in {<<Hero, 10, 1, TRUE>>, <<ZoeLatin1, 15, 1, FALSE>>} :
                                AddCombatant(c[1], c[2], c[3], c[4], "ok")
    \/ More /\ StartCombat("ok")
    \/ More /\ RoundRoom /\ NextTurn("ok")
    \/ More /\ \E index \in Indexes, amount \in {-1, 1} : handleAdjustHP(index, amount, "ok")
    \/ More /\ \E index \in Indexes, amount \in {0, 1} : handleAddTempHP(index, amount, "ok")
    \/ More /\ \E index \in Indexes :
                    EffectRoom(index) /\ handleAddStatusEffect(index, ProneNumber, <<>>, "ok")
    \/ More /\ \E index \in Indexes, effectIndex \in {0, 1} :
                    handleRemoveStatusEffect(index, effectIndex, "ok")
    \/ More /\ EndCombat("ok")
    \/ More /\ SetEncounterDetails(Campaign, Encounter, "ok")
    \/ More /\ \E index \in Indexes : RoomFor(1) /\ handleDuplicateCombatant(index, 1, "ok")
    \/ More /\ \E index \in Indexes : handleChangeInitiative(index, 12, "ok")
    \/ More /\ \E wait \in Waits : CmdSave(<<>>, wait, "ok")
    \/ More /\ ct.SaveFilePath # <<>> /\ CmdLoad(ct.SaveFilePath)
    \/ More /\ CmdExit("ok")
    \/ TimePasses

Spec == Init /\ [][Next]_vars

(***************************************************************************)
(* SpecEngine: the Engine methods on a fresh tracker with no save path     *)
(* (the program started without an argument), as deep as the roster and    *)
(* round bounds allow.  Hero and Orc tie on initiative.                    *)
(***************************************************************************)
Orc == <<79,114,99>>                    \* "Orc"

InitEngine ==
    /\ ct = NewCombatTracker
    /\ fs = NoFiles
    /\ pc = "loop"
    /\ lastOp = Op("Startup", -1, 0, TRUE)
    /\ lastWrite = "none"
    /\ started = FALSE
    /\ steps = 0
    /\ now = 1
    /\ intSize = 64

NextEngine ==
    \/ RoomFor(1) /\ \E c \in {<<Hero, 10, 1, TRUE>>, <<Wolf, 15, 1, FALSE>>, <<Orc, 10, 1, FALSE>>} :
                        AddCombatant(c[1], c[2], c[3], c[4], "ok")
    \/ StartCombat("ok")
    \/ RoundRoom /\ NextTurn("ok")
    \/ EndCombat("ok")
    \/ \E index \in Indexes : RoomFor(1) /\ DuplicateCombatant(index, 1, "ok")
    \/ \E index \in Indexes, newInitiative \in {10, 15} : ChangeInitiative(index, newInitiative, "ok")

SpecEngine == InitEngine /\ [][NextEngine]_vars

(***************************************************************************)
(* SpecHP: hit points and temporary hit points of up to MaxHPCombatants    *)
(* combatants, for max HP, deltas and temporary amounts around zero, on    *)
(* the build of either width.                                              *)
(***************************************************************************)
InitHP ==
    /\ ct = NewCombatTracker
    /\ fs = NoFiles
    /\ pc = "loop"
    /\ lastOp = Op("Startup", -1, 0, TRUE)
    /\ lastWrite = "none"
    /\ started = FALSE
    /\ steps = 0
    /\ now = 1
    /\ intSize \in IntSizes

NextHP ==
    \/ Len(ct.Combatants) < MaxHPCombatants
            /\ \E maxHP \in {-1, 0, 1, 3} : AddCombatant(Hero, 10, maxHP, TRUE, "ok")
    \/ \E index \in Indexes, amount \in {-6, -2, -1, 0, 1, 4} : AdjustHP(index, amount, "ok")
    \/ \E index \in Indexes, amount \in {-1, 0, 2, 3} : AddTemporaryHP(index, amount, "ok")

SpecHP == InitHP /\ [][NextHP]_vars

(***************************************************************************)
(* SpecOverflow: hit points and temporary hit points of combatants added   *)
(* with a max HP of 1 or more, on the build of either width, for deltas    *)
(* next to zero and at the two ends of the range of a 32-bit int, for as   *)
(* many calls as MaxSteps allows.  The command handlers pass every such    *)
(* delta on: strconv.Atoi accepts the whole range of int.  On the 32-bit   *)
(* build these deltas make the arithmetic wrap around; on the 64-bit build *)
(* they do not, and the deltas that do there (the ends of the range of a   *)
(* 64-bit int) are beyond the integers the model holds.                    *)
(***************************************************************************)
NextOverflow ==
    \/ More /\ Len(ct.Combatants) < MaxHPCombatants
            /\ \E maxHP \in {1, 3} : AddCombatant(Hero, 10, maxHP, TRUE, "ok")
    \/ More /\ \E index \in Indexes, amount \in {MinInt32, -1, 1, MaxInt32} : AdjustHP(index, amount, "ok")
    \/ More /\ \E index \in Indexes, amount \in {-1, 2} : AddTemporaryHP(index, amount, "ok")

SpecOverflow == InitHP /\ [][NextOverflow]_vars

(***************************************************************************)
(* SpecDuplicate: duplication with a save target configured (the program   *)
(* started with the name of a file that does not exist yet).  The sources  *)
(* have no trailing digits or two of them; the first combatant can be      *)
(* hurt, shielded and affected before it is copied.  The method is called  *)
(* directly with any count, and through its command handler.               *)
(***************************************************************************)
Skeleton == <<83,107,101,108,101,116,111,110>>   \* "Skeleton"
Orc12 == <<79,114,99,49,50>>                     \* "Orc12"
OrcWarrior == <<79,114,99,32,87,97,114,114,105,111,114>>   \* "Orc Warrior"

InitDuplicate ==
    /\ ct = [NewCombatTracker EXCEPT !.SaveFilePath = PathA]
    /\ fs = NoFiles
    /\ pc = "loop"
    /\ lastOp = Op("Startup", -1, 1, FALSE)
    /\ lastWrite = "none"
    /\ started = FALSE
    /\ steps = 0
    /\ now = 1
    /\ intSize = 64

CopyRoom(count) == Len(ct.Combatants) + Max(count, 0) <= 1 + MaxCopies

NextDuplicate ==
    \/ Len(ct.Combatants) = 0
            /\ \E name \in {Skeleton, Orc12, OrcWarrior} : AddCombatant(name, 10, 2, FALSE, "ok")
    \/ AdjustHP(0, -1, "ok")
    \/ AddTemporaryHP(0, 1, "ok")
    \/ EffectRoom(0) /\ AddStatusEffect(0, Prone, "ok")
    \/ \E index \in Indexes, count \in {-1, 0, 1, MaxCopies} :
            CopyRoom(count) /\ DuplicateCombatant(index, count, "ok")
    \/ \E index \in Indexes, count \in {-1, 0, 1, MaxCopies} :
            CopyRoom(count) /\ handleDuplicateCombatant(index, count, "ok")

SpecDuplicate == InitDuplicate /\ [][NextDuplicate]_vars

(***************************************************************************)
(* SpecEffects: the status lists of two combatants, with a save target     *)
(* configured.  Labels are added in any order, the same label more than    *)
(* once, and removed; "Blinded" is never on a list.                        *)
(***************************************************************************)
Stunned == <<83,116,117,110,110,101,100>>        \* "Stunned"
Blinded == <<66,108,105,110,100,101,100>>        \* "Blinded"

StatusRoom(index) ==
    ValidIndex(ct, index) => Len(ct.Combatants[index + 1].StatusEffects) < MaxStatusList

NextEffects ==
    \/ Len(ct.Combatants) = 0 /\ AddCombatant(Hero, 10, 20, TRUE, "ok")
    \/ Len(ct.Combatants) = 1 /\ AddCombatant(Wolf, 15, 10, FALSE, "ok")
    \/ \E index \in Indexes, effect \in {Prone, Stunned} :
            StatusRoom(index) /\ AddStatusEffect(index, effect, "ok")
    \/ \E index \in Indexes, effect \in {Prone, Stunned, Blinded} :
            RemoveStatusEffect(index, effect, "ok")

SpecEffects == InitDuplicate /\ [][NextEffects]_vars

(***************************************************************************)
(* SpecDisk: the program on a disk that may refuse a write.  The save file *)
(* named at startup is missing, unreadable as JSON, written by the older   *)
(* revision, or edited by hand; every write takes any of its outcomes; the *)
(* operator saves under the default name and under "b", at once or after a *)
(* while, and loads either file.                                           *)
(***************************************************************************)
\* a save file whose catalog was edited by hand down to one entry
EditedFile ==
    JSONFile([combatTracker |->
                 [combatants |-> <<>>, round |-> Itoa(0), currentTurnIdx |-> Itoa(-1),
                  isActive |-> FALSE, campaignName |-> JSONQuote(Campaign),
                  encounterName |-> JSONQuote(Encounter), statusEffects |-> <<JSONQuote(Prone)>>],
              saveTime |-> JSONQuote(SaveTimeBefore), version |-> JSONQuote(VersionString)])

\* a save file whose catalog is there and empty
EmptyCatalogFile ==
    JSONFile([combatTracker |->
                 [combatants |-> <<>>, round |-> Itoa(0), currentTurnIdx |-> Itoa(-1),
                  isActive |-> FALSE, campaignName |-> JSONQuote(Campaign),
                  encounterName |-> JSONQuote(Encounter), statusEffects |-> <<>>],
              saveTime |-> JSONQuote(SaveTimeBefore), version |-> JSONQuote(VersionString)])

\* a file that was never a save file: json.Unmarshal (line 373) rejects its content
NotJSONFile == [kind |-> "garbage", data |-> [truncated |-> FALSE]]

\* a save file edited by hand: combat is active and the turn is past the one combatant
StaleTurnFile ==
    JSONFile([combatTracker |->
                 [combatants |-> <<MarshalCombatant(Combatant(Hero, 10, 1, TRUE))>>,
                  round |-> Itoa(1), currentTurnIdx |-> Itoa(1),
                  isActive |-> TRUE, campaignName |-> JSONQuote(Campaign),
                  encounterName |-> JSONQuote(Encounter), statusEffects |-> <<JSONQuote(Prone)>>],
              saveTime |-> JSONQuote(SaveTimeBefore), version |-> JSONQuote(VersionString)])

InitDisk ==
    /\ ct = NewCombatTracker
    /\ fs \in {NoFiles} \cup {[p \in {PathA} |-> f] :
                                f \in {Garbage, NotJSONFile, OldFormatFile, EditedFile,
                                       EmptyCatalogFile, StaleTurnFile}}
    /\ pc = "start"
    /\ lastOp = Op("none", -1, 0, FALSE)
    /\ lastWrite = "none"
    /\ started = FALSE
    /\ steps = 0
    /\ now = 1
    /\ intSize = 64

NextDisk ==
    \/ \E args \in {<<>>, <<PathA>>} : Startup(args)
    \/ More /\ Len(ct.Combatants) = 0 /\ \E w \in WriteOutcomes : AddCombatant(Hero, 10, 1, TRUE, w)
    \/ More /\ \E w \in WriteOutcomes : handleAdjustHP(0, -1, w)
    \/ More /\ \E w \in WriteOutcomes : StartCombat(w)
    \/ More /\ \E typed \in {<<>>, TypedB}, wait \in Waits, w \in WriteOutcomes :
                    CmdSave(typed, wait, w)
    \/ More /\ \E filename \in {PathA, PathB} : CmdLoad(filename)
    \/ More /\ \E w \in WriteOutcomes : CmdExit(w)
    \/ TimePasses

SpecDisk == InitDisk /\ [][NextDisk]_vars

(***************************************************************************)
(* SpecScenario: Hero (initiative 10, 20 HP, player) and Wolf (initiative   *)
(* 15, 10 HP, monster) are added in that order to a fresh tracker; combat  *)
(* is started, advanced and ended, and both are hit for 25 and healed by   *)
(* 5.                                                                      *)
(***************************************************************************)
NextScenario ==
    \/ Len(ct.Combatants) = 0 /\ AddCombatant(Hero, 10, 20, TRUE, "ok")
    \/ Len(ct.Combatants) = 1 /\ AddCombatant(Wolf, 15, 10, FALSE, "ok")
    \/ StartCombat("ok")
    \/ RoundRoom /\ NextTurn("ok")
    \/ \E index \in Indexes, amount \in {-25, 5} : AdjustHP(index, amount, "ok")
    \/ EndCombat("ok")

SpecScenario == InitEngine /\ [][NextScenario]_vars

(***************************************************************************)
(* SpecRoster: nothing but AddCombatant calls on a fresh tracker, with     *)
(* names that are empty or not, initiatives and max HP below, at and above *)
(* zero, players and monsters.  steps counts the calls.                    *)
(***************************************************************************)
NextRoster ==
    RoomFor(1) /\ \E name \in {<<>>, Hero}, initiative \in {-5, 10}, maxHP \in {-1, 0, 20},
                      isPlayer \in BOOLEAN :
                     AddCombatant(name, initiative, maxHP, isPlayer, "ok")

SpecRoster == InitEngine /\ [][NextRoster]_vars

(***************************************************************************)
(* SpecJoin: combatants join while the combat runs.  Hero (initiative 10)  *)
(* and Wolf (15) are added and copied before and after StartCombat; no     *)
(* initiative is ever changed, so that a roster out of initiative order    *)
(* during combat shows a late arrival.                                     *)
(***************************************************************************)
NextJoin ==
    \/ RoomFor(1) /\ \E c \in {<<Hero, 10, 20, TRUE>>, <<Wolf, 15, 10, FALSE>>} :
                        AddCombatant(c[1], c[2], c[3], c[4], "ok")
    \/ \E index \in Indexes : RoomFor(1) /\ DuplicateCombatant(index, 1, "ok")
    \/ StartCombat("ok")
    \/ RoundRoom /\ NextTurn("ok")
    \/ EndCombat("ok")

SpecJoin == InitEngine /\ [][NextJoin]_vars

(***************************************************************************)
(* SpecLineup: a roster that grows by additions and by duplication (counts *)
(* below, at and above one) while its members are hurt, marked, re-rolled  *)
(* and sorted, for as many steps as MaxSteps allows.                       *)
(***************************************************************************)
NextLineup ==
    \/ More /\ CopyRoom(1) /\ \E c \in {<<Hero, 10, 2, TRUE>>, <<Wolf, 15, 2, FALSE>>} :
                                AddCombatant(c[1], c[2], c[3], c[4], "ok")
    \/ More /\ \E index \in Indexes : AdjustHP(index, -1, "ok")
    \/ More /\ \E index \in Indexes : EffectRoom(index) /\ AddStatusEffect(index, Prone, "ok")
    \/ More /\ \E index \in Indexes, count \in {-1, 0, 2} :
                    CopyRoom(count) /\ DuplicateCombatant(index, count, "ok")
    \/ More /\ StartCombat("ok")
    \/ More /\ \E index \in Indexes : ChangeInitiative(index, 20, "ok")
    \/ More /\ EndCombat("ok")

SpecLineup == InitEngine /\ [][NextLineup]_vars

(***************************************************************************)
(* SpecCalls: every Engine method called directly, with any index, on a    *)
(* tracker whose save target is set, for as many calls as MaxSteps allows. *)
(***************************************************************************)
NextCalls ==
    \/ More /\ RoomFor(1) /\ \E c \in {<<Hero, 10, 1, TRUE>>, <<Wolf, 15, 1, FALSE>>} :
                                AddCombatant(c[1], c[2], c[3], c[4], "ok")
    \/ More /\ StartCombat("ok")
    \/ More /\ RoundRoom /\ NextTurn("ok")
    \/ More /\ \E index \in Indexes, amount \in {-1, 1} : AdjustHP(index, amount, "ok")
    \/ More /\ \E index \in Indexes, amount \in {0, 1} : AddTemporaryHP(index, amount, "ok")
    \/ More /\ \E index \in Indexes : EffectRoom(index) /\ AddStatusEffect(index, Prone, "ok")
    \/ More /\ \E index \in Indexes : RemoveStatusEffect(index, Prone, "ok")
    \/ More /\ EndCombat("ok")
    \/ More /\ \E index \in Indexes : RoomFor(1) /\ DuplicateCombatant(index, 1, "ok")
    \/ More /\ \E index \in Indexes : ChangeInitiative(index, 12, "ok")

SpecCalls == InitDuplicate /\ [][NextCalls]_vars

(***************************************************************************)
(* Vocabulary of the properties.                                           *)
(***************************************************************************)
\* the encounter without the in-memory-only save target
Memory(t) == [t EXCEPT !.SaveFilePath = <<>>]

Occurrences(seq, x) == Cardinality({i \in 1..Len(seq) : seq[i] = x})

IsPermutation(a, b) ==
    /\ Len(a) = Len(b)
    /\ \A i \in 1..Len(a) : Occurrences(a, a[i]) = Occurrences(b, a[i])

NonIncreasing(cs) == \A i \in 1..(Len(cs) - 1) : cs[i].Initiative >= cs[i + 1].Initiative

\* the stable descending order of cs: each element goes behind those already placed
\* whose initiative is not lower
RECURSIVE StableOrder(_)
StableOrder(cs) ==
    IF cs = <<>> THEN <<>>
    ELSE LET rest == StableOrder(SubSeq(cs, 1, Len(cs) - 1))
             c == cs[Len(cs)]
             k == Cardinality({i \in 1..Len(rest) : rest[i].Initiative >= c.Initiative})
         IN  SubSeq(rest, 1, k) \o <<c>> \o SubSeq(rest, k + 1, Len(rest))

MutatingOps == {"AddCombatant", "StartCombat", "NextTurn", "AdjustHP", "AddTemporaryHP",
                "AddStatusEffect", "RemoveStatusEffect", "EndCombat", "SetEncounterDetails",
                "DuplicateCombatant", "ChangeInitiative"}

\* the combatant the last operation addressed
Target == ct.Combatants[lastOp.index + 1]

\* the step is a call of the named method (lastOp' holds its arguments)
Called(name) == lastOp'.op = name

(***************************************************************************)
(* C1.  Whenever a save target is configured and the write succeeds, right *)
(* after every successful mutating operation the save file decodes to      *)
(* exactly the in-memory encounter (every field but the save target).      *)
(* Fails: a name that is not valid UTF-8 is written as U+FFFD.             *)
(***************************************************************************)
C1_FileDecodesToMemory ==
    (/\ lastOp.op \in MutatingOps
     /\ lastOp.applied
     /\ pc = "loop"
     /\ ct.SaveFilePath # <<>>
     /\ lastWrite = "ok")
    => /\ ~LoadFromFile(fs, ct.SaveFilePath).err
       /\ Memory(LoadFromFile(fs, ct.SaveFilePath).tracker) = Memory(ct)

(***************************************************************************)
(* C2.  Round trip: saving any reachable encounter to a destination and    *)
(* loading that destination yields an encounter equal to it in every field *)
(* except the save target.  Fails for the same strings as C1.              *)
(***************************************************************************)
C2_SaveLoadRoundTrip ==
    pc \in {"loop", "done"} =>
        \A filename \in {PathA, PathB} :
            LET loaded == LoadFromFile(SaveToFile(ct, fs, filename, "ok"), filename) IN
            ~loaded.err /\ Memory(loaded.tracker) = Memory(ct)

(***************************************************************************)
(* C3.  StartCombat on a roster of at least one combatant leaves a         *)
(* permutation of the roster in non-increasing initiative order and sets   *)
(* round = 1, currentTurnIdx = 0, isActive = true.                         *)
(***************************************************************************)
C3_StartCombatSortsAndStarts ==
    [][(Called("StartCombat") /\ Len(ct.Combatants) >= 1 /\ \E w \in WriteOutcomes : StartCombat(w))
          => /\ IsPermutation(ct.Combatants, ct'.Combatants)
             /\ NonIncreasing(ct'.Combatants)
             /\ ct'.Round = 1
             /\ ct'.CurrentTurnIdx = 0
             /\ ct'.IsActive]_vars

C3_Witness ==
    /\ lastOp = Op("StartCombat", -1, 0, TRUE)
    /\ Len(ct.Combatants) = 2
    /\ ct.Combatants[1].Name = Wolf
    /\ ct.Combatants[2].Name = Hero
    /\ ct.CurrentTurnIdx = 0
    /\ ct.Round = 1

(***************************************************************************)
(* C4.  The initiative sort is stable: the re-sort of StartCombat, and of  *)
(* ChangeInitiative during active combat, keeps combatants of equal        *)
(* initiative in the relative order they had.  Fails: sort.Slice promises  *)
(* no order among equals.                                                  *)
(***************************************************************************)
C4_SortIsStable ==
    [][/\ (Called("StartCombat") /\ Len(ct.Combatants) >= 1 /\ \E w \in WriteOutcomes : StartCombat(w))
             => ct'.Combatants = StableOrder(ct.Combatants)
       /\ (/\ Called("ChangeInitiative")
           /\ ValidIndex(ct, lastOp'.index)
           /\ ct.IsActive
           /\ \E w \in WriteOutcomes : ChangeInitiative(lastOp'.index, lastOp'.n, w))
             => ct'.Combatants =
                   StableOrder([ct.Combatants EXCEPT ![lastOp'.index + 1].Initiative = lastOp'.n])]_vars

(***************************************************************************)
(* C5.  During active combat each AdvanceTurn (NextTurn) adds 1 to         *)
(* currentTurnIdx, or, when that reaches len(combatants), wraps it to 0    *)
(* and adds 1 to round; so len(combatants) consecutive calls from          *)
(* currentTurnIdx = 0 come back to 0 with round one higher.                *)
(***************************************************************************)
RECURSIVE AdvanceTimes(_, _)
AdvanceTimes(t, n) == IF n = 0 THEN t ELSE AdvanceTimes(Advance(t), n - 1)

C5_AdvanceTurnWraps ==
    [][(Called("NextTurn") /\ ct.IsActive /\ \E w \in WriteOutcomes : NextTurn(w))
          => /\ IF ct.CurrentTurnIdx + 1 = Len(ct.Combatants)
                THEN ct'.CurrentTurnIdx = 0 /\ ct'.Round = ct.Round + 1
                ELSE ct'.CurrentTurnIdx = ct.CurrentTurnIdx + 1 /\ ct'.Round = ct.Round
             /\ ct' = Advance(ct)
             /\ ct.CurrentTurnIdx = 0
                => AdvanceTimes(ct, Len(ct.Combatants))
                      = [ct EXCEPT !.Round = ct.Round + 1, !.CurrentTurnIdx = 0]]_vars

C5_Witness ==
    /\ lastOp = Op("NextTurn", -1, 0, TRUE)
    /\ Len(ct.Combatants) = 2
    /\ ct.CurrentTurnIdx = 0
    /\ ct.Round = 2
    /\ ct.IsActive

C9_Rejected ==
    \/ /\ ~ValidIndex(ct, lastOp'.index)
       /\ \E w \in WriteOutcomes :
             \/ Called("AdjustHP") /\ AdjustHP(lastOp'.index, lastOp'.n, w)
             \/ Called("AddTemporaryHP") /\ AddTemporaryHP(lastOp'.index, lastOp'.n, w)
             \/ Called("AddStatusEffect") /\ AddStatusEffect(lastOp'.index, Prone, w)
             \/ Called("RemoveStatusEffect") /\ RemoveStatusEffect(lastOp'.index, Prone, w)
             \/ Called("DuplicateCombatant") /\ DuplicateCombatant(lastOp'.index, lastOp'.n, w)
             \/ Called("ChangeInitiative") /\ ChangeInitiative(lastOp'.index, lastOp'.n, w)
    \/ /\ ~ct.IsActive
       /\ \E w \in WriteOutcomes :
             \/ Called("NextTurn") /\ NextTurn(w)
             \/ Called("EndCombat") /\ EndCombat(w)
    \/ /\ Len(ct.Combatants) = 0
       /\ \E w \in WriteOutcomes : Called("StartCombat") /\ StartCombat(w)

C9_RejectedIsNoOp ==
    [][C9_Rejected => (ct' = ct /\ fs' = fs /\ lastWrite' = "none" /\ ~lastOp'.applied)]_vars

\* an index past a non-empty roster, with a save target that auto-save would write
C9_Witness ==
    /\ lastOp = Op("AdjustHP", Len(ct.Combatants), -1, FALSE)
    /\ Len(ct.Combatants) >= 1
    /\ ct.SaveFilePath # <<>>
    /\ lastWrite = "none"

(***************************************************************************)
(* C10.  In every state reached by engine operations from a fresh          *)
(* encounter: while combat is active -1 <= currentTurnIdx <                *)
(* len(combatants); while it is inactive and StartCombat never succeeded,  *)
(* currentTurnIdx = -1.                                                    *)
(***************************************************************************)
C10_TurnIndexInRange ==
    /\ ct.IsActive => (-1 <= ct.CurrentTurnIdx /\ ct.CurrentTurnIdx < Len(ct.Combatants))
    /\ (~ct.IsActive /\ ~started) => ct.CurrentTurnIdx = -1

\* the last combatant's turn, one step before the index wraps
C10_Witness ==
    /\ ct.IsActive
    /\ Len(ct.Combatants) = 2
    /\ ct.CurrentTurnIdx = 1
    /\ lastOp.op = "NextTurn"

(***************************************************************************)
(* C11.  In every state reached by engine operations from a fresh          *)
(* encounter: round >= 1 whenever combat is or has ever been active, and   *)
(* round = 0 exactly while StartCombat has never succeeded.                *)
(***************************************************************************)
C11_RoundCountsFromStart ==
    /\ (ct.IsActive \/ started) => ct.Round >= 1
    /\ ct.Round = 0 <=> ~started

\* combat was started, ran into its second round and was ended
C11_Witness ==
    /\ started
    /\ ~ct.IsActive
    /\ ct.Round = 2
    /\ lastOp = Op("EndCombat", -1, 0, TRUE)

(***************************************************************************)
(* C12.  ChangeInitiative(i, v) with a valid index overwrites that         *)
(* combatant's initiative with v; during active combat the roster is then  *)
(* re-sorted by descending initiative while currentTurnIdx keeps its       *)
(* numeric value; while inactive the roster order is left as it was.       *)
(***************************************************************************)
C12_ChangeInitiativeResorts ==
    [][(/\ Called("ChangeInitiative")
        /\ ValidIndex(ct, lastOp'.index)
        /\ \E w \in WriteOutcomes : ChangeInitiative(lastOp'.index, lastOp'.n, w))
          => LET changed == [ct.Combatants EXCEPT ![lastOp'.index + 1].Initiative = lastOp'.n]
             IN  /\ ct'.CurrentTurnIdx = ct.CurrentTurnIdx
                 /\ ct' = [ct EXCEPT !.Combatants = ct'.Combatants]
                 /\ IF ct.IsActive
                    THEN IsPermutation(changed, ct'.Combatants) /\ NonIncreasing(ct'.Combatants)
                    ELSE ct'.Combatants = changed]_vars

\* Hero, second in the order and on turn, raised to 15: Hero moves to the front and
\* the turn pointer, still 1, now designates the other combatant
C12_Witness ==
    /\ lastOp = Op("ChangeInitiative", 1, 15, TRUE)
    /\ ct.IsActive
    /\ ct.CurrentTurnIdx = 1
    /\ Len(ct.Combatants) = 2
    /\ ct.Combatants[1].Name = Hero
    /\ ct.Combatants[1].Initiative = 15
    /\ ct.Combatants[2].Initiative = 10

(***************************************************************************)
(* C13.  Only StartCombat, and ChangeInitiative during active combat,      *)
(* re-sort the roster: AddCombatant, DuplicateCombatant, NextTurn,         *)
(* AdjustHP, AddTemporaryHP, AddStatusEffect, RemoveStatusEffect,          *)
(* EndCombat, SetEncounterDetails and ChangeInitiative while inactive      *)
(* leave the existing combatants where they are, new ones going to the     *)
(* end, also during active combat.                                         *)
(***************************************************************************)
\* what a combatant keeps for life
Identity(c) == <<c.Name, c.MaxHP, c.IsPlayer>>

C13_KeepsOrder ==
    \/ lastOp'.op \in {"AddCombatant", "DuplicateCombatant", "NextTurn", "AdjustHP",
                       "AddTemporaryHP", "AddStatusEffect", "RemoveStatusEffect",
                       "EndCombat", "SetEncounterDetails"}
    \/ Called("ChangeInitiative") /\ ~ct.IsActive

C13_OnlySortsReorder ==
    [][C13_KeepsOrder
          => /\ Len(ct'.Combatants) >= Len(ct.Combatants)
             /\ \A i \in 1..Len(ct.Combatants) :
                    Identity(ct'.Combatants[i]) = Identity(ct.Combatants[i])]_vars

\* a combatant added during active combat stands last although its initiative is higher
C13_Witness ==
    /\ lastOp.op = "AddCombatant"
    /\ ct.IsActive
    /\ Len(ct.Combatants) = 2
    /\ ct.Combatants[2].Initiative > ct.Combatants[1].Initiative
    /\ ct.Combatants[2].Name = ZoeLatin1

(***************************************************************************)
(* C14.  Temporary HP does not stack: AddTemporaryHP(i, a) leaves          *)
(* temporaryHP = a when a is strictly greater than the value there, and    *)
(* the value there otherwise: the result is max(old, a).                   *)
(***************************************************************************)
C14_TemporaryHPIsMax ==
    [][(/\ Called("AddTemporaryHP")
        /\ ValidIndex(ct, lastOp'.index)
        /\ \E w \in WriteOutcomes : AddTemporaryHP(lastOp'.index, lastOp'.n, w))
          => LET c == ct.Combatants[lastOp'.index + 1]
                 a == lastOp'.n
             IN  /\ ct'.Combatants[lastOp'.index + 1] = [c EXCEPT !.TemporaryHP = Max(c.TemporaryHP, a)]
                 /\ a > c.TemporaryHP => ct'.Combatants[lastOp'.index + 1].TemporaryHP = a
                 /\ a <= c.TemporaryHP => ct'.Combatants[lastOp'.index + 1] = c]_vars

\* 2 offered to a combatant holding 3: the 3 stays
C14_Witness ==
    /\ lastOp = Op("AddTemporaryHP", 0, 2, TRUE)
    /\ Target.TemporaryHP = 3

(***************************************************************************)
(* C15.  temporaryHP >= 0 for every combatant after any sequence of        *)
(* engine operations, whatever the AddTemporaryHP amounts (negative ones   *)
(* too) and the AdjustHP deltas.  Fails: for the least int as delta the    *)
(* negation of line 155 wraps around and leaves damage as that least int,  *)
(* which a positive temporaryHP "absorbs" (line 159); line 160 then        *)
(* subtracts it from temporaryHP, which wraps around to a negative value.  *)
(* Found on the 32-bit build with the delta MinInt32.                      *)
(***************************************************************************)
C15_TemporaryHPNotNegative ==
    \A i \in 1..Len(ct.Combatants) : ct.Combatants[i].TemporaryHP >= 0

(***************************************************************************)
(* C16.  As claimed: AddTemporaryHP auto-saves only when it changed        *)
(* something; with a valid index and an amount not strictly greater than   *)
(* the temporary HP there, nothing is written.  Fails: line 219 is         *)
(* reached in both branches.                                               *)
(***************************************************************************)
C16_SavesOnlyOnChange ==
    [][(/\ Called("AddTemporaryHP")
        /\ ValidIndex(ct, lastOp'.index)
        /\ lastOp'.n <= ct.Combatants[lastOp'.index + 1].TemporaryHP
        /\ \E w \in WriteOutcomes : AddTemporaryHP(lastOp'.index, lastOp'.n, w))
          => lastWrite' = "none"]_vars

(***************************************************************************)
(* C16, amended.  AddTemporaryHP with a valid index auto-saves on every    *)
(* call, whether or not the amount exceeded the temporary HP there: with   *)
(* a save target configured the file is written, and a call that changed   *)
(* nothing leaves the encounter as it was.                                 *)
(***************************************************************************)
C16_TemporaryHPAlwaysSaves ==
    [][(/\ Called("AddTemporaryHP")
        /\ ValidIndex(ct, lastOp'.index)
        /\ \E w \in WriteOutcomes : AddTemporaryHP(lastOp'.index, lastOp'.n, w))
          => /\ ct.SaveFilePath # <<>> => lastWrite' \in WriteOutcomes
             /\ ct.SaveFilePath = <<>> => lastWrite' = "none"
             /\ lastWrite' = "ok" => fs' = SaveToFile(ct', fs, ct.SaveFilePath, "ok")
             /\ lastOp'.n <= ct.Combatants[lastOp'.index + 1].TemporaryHP => ct' = ct]_vars

\* an amount of 0 changes nothing, and the save file was written all the same
C16_Witness ==
    /\ lastOp = Op("AddTemporaryHP", 0, 0, TRUE)
    /\ ct.SaveFilePath # <<>>
    /\ lastWrite = "ok"
    /\ Target.TemporaryHP = 1

(***************************************************************************)
(* C17.  A combatant is unconscious exactly when a damage call left its    *)
(* currentHP at 0 and no healing call has raised it above 0 since.  As     *)
(* steps: a new combatant is conscious; a damage call that leaves          *)
(* currentHP at 0 leaves it unconscious and any other damage call leaves   *)
(* isConscious as it was; a healing call that leaves currentHP above 0     *)
(* leaves it conscious and any other healing call leaves isConscious as    *)
(* it was; nothing else touches isConscious.  So an unconscious combatant  *)
(* has currentHP <= 0, and one with maxHP >= 1 is conscious exactly when   *)
(* its currentHP is above 0.                                               *)
(***************************************************************************)
C17_Now ==
    \A i \in 1..Len(ct.Combatants) :
        LET c == ct.Combatants[i] IN
        /\ ~c.IsConscious => c.CurrentHP <= 0
        /\ c.MaxHP >= 1 => (c.IsConscious <=> c.CurrentHP > 0)

C17_Step ==
    /\ \A i \in (Len(ct.Combatants) + 1)..Len(ct'.Combatants) : ct'.Combatants[i].IsConscious
    /\ \A i \in 1..Len(ct.Combatants) :
          LET c == ct.Combatants[i]
              after == ct'.Combatants[i]
          IN  IF Called("AdjustHP") /\ lastOp'.index = i - 1
              THEN IF lastOp'.n < 0
                   THEN IF after.CurrentHP = 0 THEN ~after.IsConscious
                                               ELSE after.IsConscious = c.IsConscious
                   ELSE IF after.CurrentHP > 0 THEN after.IsConscious
                                               ELSE after.IsConscious = c.IsConscious
              ELSE after.IsConscious = c.IsConscious

C17_ConsciousTracksHP == []C17_Now /\ [][C17_Step]_vars

\* knocked out by 6 damage, then healed by 0: still at 0 and still unconscious
C17_Witness ==
    /\ lastOp = Op("AdjustHP", 0, 0, TRUE)
    /\ Target.MaxHP = 3
    /\ Target.CurrentHP = 0
    /\ ~Target.IsConscious

(***************************************************************************)
(* C18.  As claimed: DuplicateCombatant(index, count) with count < 1 fails *)
(* as a validation error, whether the method is called or its command      *)
(* handler: the encounter is unchanged and nothing is written.  Fails for  *)
(* the method: its loop runs zero times and line 479 auto-saves.           *)
(***************************************************************************)
C18_DuplicateCall ==
    /\ Called("DuplicateCombatant") \/ Called("handleDuplicateCombatant")
    /\ \E w \in WriteOutcomes :
          \/ DuplicateCombatant(lastOp'.index, lastOp'.n, w)
          \/ handleDuplicateCombatant(lastOp'.index, lastOp'.n, w)

C18_HandlerRejectsCountBelowOne ==
    [][/\ (/\ Called("DuplicateCombatant") \/ Called("handleDuplicateCombatant")
           /\ lastOp'.n < 1
           /\ \E w \in WriteOutcomes : handleDuplicateCombatant(lastOp'.index, lastOp'.n, w))
          => (ct' = ct /\ fs' = fs /\ lastWrite' = "none" /\ ~lastOp'.applied)
       /\ (/\ Called("DuplicateCombatant")
           /\ lastOp'.n < 1
           /\ ValidIndex(ct, lastOp'.index)
           /\ \E w \in WriteOutcomes : DuplicateCombatant(lastOp'.index, lastOp'.n, w))
          => /\ ct' = ct
             /\ ct.SaveFilePath # <<>> => lastWrite' \in WriteOutcomes
             /\ lastWrite' = "ok" => fs' = SaveToFile(ct, fs, ct.SaveFilePath, "ok")]_vars

\* the handler refused 0 copies of an existing combatant
C18_HandlerRefused ==
    /\ lastOp = Op("handleDuplicateCombatant", 0, 0, FALSE)
    /\ Len(ct.Combatants) >= 1
    /\ ct.SaveFilePath # <<>>
    /\ lastWrite = "none"

(***************************************************************************)
(* C19.  For every source name the copies are named base + (n + i),        *)
(* i = 1..count in that order, base being the name without its whole       *)
(* trailing run of decimal digits and n the decimal value of that run      *)
(* ("Orc12": base "Orc", n = 12, copies "Orc13", "Orc14"), n = 0 and base  *)
(* the whole name when there are no trailing digits.  Fails: the loop at   *)
(* lines 448..454 reads the digits last to first.                          *)
(***************************************************************************)
TrailingDigits(name) == SubSeq(name, Len(TrimRight(name, DigitCutset)) + 1, Len(name))

C19_CopiesNumberedFromTrailingNumber ==
    [][(/\ Called("DuplicateCombatant")
        /\ ValidIndex(ct, lastOp'.index)
        /\ lastOp'.n >= 1
        /\ \E w \in WriteOutcomes : DuplicateCombatant(lastOp'.index, lastOp'.n, w))
          => LET name == ct.Combatants[lastOp'.index + 1].Name
                 base == TrimRight(name, DigitCutset)
                 n == ParseUint(TrailingDigits(name), 0)
             IN  \A i \in 1..lastOp'.n :
                    ct'.Combatants[Len(ct.Combatants) + i].Name = base \o Itoa(n + i)]_vars

(***************************************************************************)
(* C20.  DuplicateCombatant(index, count) with a valid index and           *)
(* count >= 1 appends exactly count combatants at the end of the roster,   *)
(* each with the source's initiative, maxHP and isPlayer, currentHP = the  *)
(* source's maxHP, conscious, without temporary HP or status effects,      *)
(* whatever the source's damage, temporary HP and status effects; the      *)
(* combatants there before are unchanged.  "Skeleton" with count 3 gives   *)
(* "Skeleton1", "Skeleton2", "Skeleton3".                                  *)
(***************************************************************************)
C20_CopiesAreFresh ==
    [][(/\ Called("DuplicateCombatant")
        /\ ValidIndex(ct, lastOp'.index)
        /\ lastOp'.n >= 1
        /\ \E w \in WriteOutcomes : DuplicateCombatant(lastOp'.index, lastOp'.n, w))
          => LET source == ct.Combatants[lastOp'.index + 1]
                 old == Len(ct.Combatants)
             IN  /\ Len(ct'.Combatants) = old + lastOp'.n
                 /\ SubSeq(ct'.Combatants, 1, old) = ct.Combatants
                 /\ ct' = [ct EXCEPT !.Combatants = ct'.Combatants]
                 /\ \A i \in 1..lastOp'.n :
                       LET copy == ct'.Combatants[old + i] IN
                       /\ copy.Initiative = source.Initiative
                       /\ copy.MaxHP = source.MaxHP
                       /\ copy.IsPlayer = source.IsPlayer
                       /\ copy.CurrentHP = source.MaxHP
                       /\ copy.IsConscious
                       /\ copy.TemporaryHP = 0
                       /\ copy.StatusEffects = <<>>
                       /\ source.Name = Skeleton => copy.Name = Skeleton \o Itoa(i)]_vars

\* three copies of a hurt, shielded, prone Skeleton, the third one fresh
C20_Witness ==
    /\ lastOp = Op("DuplicateCombatant", 0, 3, TRUE)
    /\ Len(ct.Combatants) = 4
    /\ ct.Combatants[1].Name = Skeleton
    /\ ct.Combatants[1].CurrentHP = 1
    /\ ct.Combatants[1].TemporaryHP = 1
    /\ ct.Combatants[1].StatusEffects = <<Prone>>
    /\ ct.Combatants[4].Name = Skeleton \o <<51>>
    /\ ct.Combatants[4].CurrentHP = 2
    /\ ct.Combatants[4].TemporaryHP = 0
    /\ ct.Combatants[4].StatusEffects = <<>>

(***************************************************************************)
(* C21.  As the README example has it: the copies of a combatant whose     *)
(* name has no trailing number are numbered starting at 2, so that         *)
(* "Orc Warrior" with 3 copies gives "Orc Warrior2", "Orc Warrior3",       *)
(* "Orc Warrior4".  Fails: line 463 numbers them lastNumber + i + 1 with   *)
(* lastNumber = 0 and i from 0, that is from 1.                            *)
(***************************************************************************)
C21_UnnumberedCopiesStartAtTwo ==
    [][(/\ Called("DuplicateCombatant")
        /\ ValidIndex(ct, lastOp'.index)
        /\ lastOp'.n >= 1
        /\ TrailingDigits(ct.Combatants[lastOp'.index + 1].Name) = <<>>
        /\ \E w \in WriteOutcomes : DuplicateCombatant(lastOp'.index, lastOp'.n, w))
          => LET name == ct.Combatants[lastOp'.index + 1].Name IN
             \A i \in 1..lastOp'.n :
                ct'.Combatants[Len(ct.Combatants) + i].Name = name \o Itoa(i + 1)]_vars

(***************************************************************************)
(* C22.  RemoveStatusEffect(i, label) with a valid index and at least one  *)
(* matching entry removes exactly one occurrence of label, the first in    *)
(* list order: the list is one shorter, every label occurs as often as     *)
(* before except label, which occurs once less, and the entries in front   *)
(* of the first match stay where they were.  Nothing else of the encounter *)
(* changes.                                                                *)
(***************************************************************************)
C22_RemovesFirstOccurrence ==
    [][(/\ Called("RemoveStatusEffect")
        /\ ValidIndex(ct, lastOp'.index)
        /\ \E label \in {Prone, Stunned, Blinded}, w \in WriteOutcomes :
              /\ Occurrences(ct.Combatants[lastOp'.index + 1].StatusEffects, label) >= 1
              /\ RemoveStatusEffect(lastOp'.index, label, w))
          => LET old == ct.Combatants[lastOp'.index + 1].StatusEffects
                 new == ct'.Combatants[lastOp'.index + 1].StatusEffects
                 first == lastOp'.n
                 label == old[first]
             IN  /\ lastOp'.applied
                 /\ \A j \in 1..(first - 1) : old[j] # label /\ new[j] = old[j]
                 /\ Len(new) = Len(old) - 1
                 /\ \A x \in {Prone, Stunned, Blinded} :
                       Occurrences(new, x) = Occurrences(old, x) - (IF x = label THEN 1 ELSE 0)
                 /\ ct' = [ct EXCEPT !.Combatants[lastOp'.index + 1].StatusEffects = new]]_vars

\* "Prone" taken off Wolf's list Stunned, Prone, Prone: Stunned and one Prone are left
C22_Witness ==
    /\ lastOp = Op("RemoveStatusEffect", 1, 2, TRUE)
    /\ Len(ct.Combatants) = 2
    /\ Target.StatusEffects = <<Stunned, Prone>>
    /\ ct.Combatants[1].StatusEffects = <<Prone, Stunned>>

(***************************************************************************)
(* C23.  RemoveStatusEffect(i, label) with a valid index and a label that  *)
(* is not on that combatant's list changes no state and writes nothing:    *)
(* it reports that the combatant was not affected and returns; the program *)
(* goes on.                                                                *)
(***************************************************************************)
C23_AbsentLabelIsNoOp ==
    [][(/\ Called("RemoveStatusEffect")
        /\ ValidIndex(ct, lastOp'.index)
        /\ \E label \in {Prone, Stunned, Blinded}, w \in WriteOutcomes :
              /\ Occurrences(ct.Combatants[lastOp'.index + 1].StatusEffects, label) = 0
              /\ RemoveStatusEffect(lastOp'.index, label, w))
          => /\ ct' = ct
             /\ fs' = fs
             /\ lastWrite' = "none"
             /\ ~lastOp'.applied
             /\ pc' = "loop"]_vars

\* "Blinded" asked off a list that holds Prone and Stunned, with a save target set
C23_Witness ==
    /\ lastOp = Op("RemoveStatusEffect", 0, 0, FALSE)
    /\ Len(ct.Combatants) >= 1
    /\ ct.Combatants[1].StatusEffects = <<Prone, Stunned>>
    /\ ct.SaveFilePath # <<>>
    /\ lastWrite = "none"

(***************************************************************************)
(* C24.  EndCombat during active combat sets isActive = false and changes  *)
(* nothing else: round and currentTurnIdx keep their values (they are not  *)
(* reset to 0 and -1) and the roster is untouched.                         *)
(***************************************************************************)
C24_EndCombatOnlyDeactivates ==
    [][(Called("EndCombat") /\ ct.IsActive /\ \E w \in WriteOutcomes : EndCombat(w))
          => /\ ~ct'.IsActive
             /\ ct'.Round = ct.Round
             /\ ct'.CurrentTurnIdx = ct.CurrentTurnIdx
             /\ ct'.Combatants = ct.Combatants
             /\ ct' = [ct EXCEPT !.IsActive = FALSE]]_vars

\* combat ended in round 2 on the second combatant's turn
C24_Witness ==
    /\ lastOp = Op("EndCombat", -1, 0, TRUE)
    /\ ~ct.IsActive
    /\ ct.Round = 2
    /\ ct.CurrentTurnIdx = 1
    /\ Len(ct.Combatants) = 2

(***************************************************************************)
(* C25.  Combat is re-entrant: once a combat has been started, advanced    *)
(* any number of turns and ended, a further StartCombat succeeds and       *)
(* yields isActive = true, round = 1, currentTurnIdx = 0 with the roster   *)
(* re-sorted by descending initiative, whatever round and turn the ended   *)
(* combat left behind.                                                     *)
(***************************************************************************)
C25_StartCombatAgain ==
    [][(/\ Called("StartCombat")
        /\ started
        /\ ~ct.IsActive
        /\ \E w \in WriteOutcomes : StartCombat(w))
          => /\ Len(ct.Combatants) >= 1
             /\ lastOp'.applied
             /\ ct'.IsActive
             /\ ct'.Round = 1
             /\ ct'.CurrentTurnIdx = 0
             /\ IsPermutation(ct.Combatants, ct'.Combatants)
             /\ NonIncreasing(ct'.Combatants)]_vars

\* started again after a combat that was ended in round 2
C25_Witness ==
    /\ lastOp = Op("StartCombat", -1, 2, TRUE)
    /\ started
    /\ ct.IsActive
    /\ ct.Round = 1
    /\ ct.CurrentTurnIdx = 0
    /\ Len(ct.Combatants) = 2

(***************************************************************************)
(* C26.  An auto-save failure does not roll back the mutation that         *)
(* triggered it.  When the write to the configured destination fails, the  *)
(* encounter in memory after the operation is what it is when the write    *)
(* succeeds; the destination does not get the new document (it is as it    *)
(* was, or cut short by the failed write); the program stays in its loop   *)
(* with the same save target, and the next operation that applies attempts *)
(* its own auto-save.                                                      *)
(***************************************************************************)
WriteFailures == {"openfail", "writefail"}

C26_FailedAutoSaveKeepsMutation ==
    [][/\ (lastWrite' \in WriteFailures /\ lastOp'.op \in MutatingOps)
             => /\ lastOp'.applied
                /\ ct.SaveFilePath # <<>>
                /\ ct'.SaveFilePath = ct.SaveFilePath
                /\ pc' = "loop"
                /\ Called("AddCombatant")
                      => ct' = [ct EXCEPT !.Combatants = Append(@, Combatant(Hero, 10, lastOp'.n, TRUE))]
                /\ Called("AdjustHP")
                      => ct' = [ct EXCEPT !.Combatants[lastOp'.index + 1] =
                                              AdjustCombatantHP(@, lastOp'.n)]
                /\ Called("StartCombat")
                      => \E sorted \in SortByInitiative(ct.Combatants) :
                            ct' = [ct EXCEPT !.Combatants = sorted, !.Round = 1,
                                             !.CurrentTurnIdx = 0, !.IsActive = TRUE]
                /\ \/ fs' = fs
                   \/ fs' = WriteFile(fs, ct.SaveFilePath, Serialize(ct'), "writefail")
       /\ (/\ lastWrite \in WriteFailures
           /\ lastOp.op \in MutatingOps
           /\ lastOp'.op \in MutatingOps
           /\ lastOp'.applied)
             => lastWrite' \in WriteOutcomes]_vars

\* the damage stands in memory after its auto-save failed, and the save file
\* does not hold the combatant
C26_Witness ==
    /\ lastOp = Op("AdjustHP", 0, -1, TRUE)
    /\ lastWrite \in WriteFailures
    /\ ct.SaveFilePath = PathA
    /\ Len(ct.Combatants) = 1
    /\ ct.Combatants[1].CurrentHP = 0
    /\ ~ct.Combatants[1].IsConscious
    /\ \/ LoadFromFile(fs, PathA).err
       \/ Len(LoadFromFile(fs, PathA).tracker.Combatants) = 0
    /\ pc = "loop"

(***************************************************************************)
(* C27.  A load that fails (the file cannot be read, or its content cannot *)
(* be decoded) at startup leaves a fresh tracker: no combatants, inactive, *)
(* round 0, currentTurnIdx -1, with the save target set to the startup     *)
(* argument.  A load command that fails keeps the tracker in memory as it  *)
(* was, save target included.                                              *)
(***************************************************************************)
C27_FailedLoadFallsBack ==
    [][/\ (/\ Called("Startup")
           /\ \E args \in {<<PathA>>} : LoadFromFile(fs, args[1]).err /\ Startup(args))
             => /\ ct'.Combatants = <<>>
                /\ ~ct'.IsActive
                /\ ct'.Round = 0
                /\ ct'.CurrentTurnIdx = -1
                /\ ct'.SaveFilePath = PathA
                /\ Memory(ct') = NewCombatTracker
                /\ fs' = fs
                /\ pc' = "loop"
       /\ \A filename \in {PathA, PathB} :
             (Called("Load") /\ LoadFromFile(fs, filename).err /\ CmdLoad(filename))
                => /\ ct' = ct
                   /\ fs' = fs
                   /\ ~lastOp'.applied
                   /\ pc' = "loop"]_vars

\* started on an unreadable "a.json", added Hero without getting the file written,
\* then asked to load it: Hero and the save target are still there
C27_Witness ==
    /\ lastOp = Op("Load", -1, 0, FALSE)
    /\ PathA \in DOMAIN fs
    /\ fs[PathA] = Garbage
    /\ ct.SaveFilePath = PathA
    /\ Len(ct.Combatants) = 1
    /\ pc = "loop"

(***************************************************************************)
(* C28.  Vocabulary: what one step of the loop does to the save target.    *)
(* C28_Inert: without a save target no Engine operation writes anything.   *)
(* C28_SaveSetsTarget: a save command that succeeds makes the path it      *)
(* wrote the save target, and one that fails leaves the target as it was.  *)
(* C28_TargetIsUsed: an Engine operation that applies with a save target   *)
(* attempts its write there and nowhere else.                              *)
(***************************************************************************)
C28_Inert ==
    (lastOp'.op \in MutatingOps /\ ct.SaveFilePath = <<>>)
        => (fs' = fs /\ lastWrite' = "none" /\ ct'.SaveFilePath = <<>>)

C28_SaveSetsTarget ==
    \A typed \in {<<>>, TypedB}, wait \in Waits, w \in WriteOutcomes :
        (Called("Save") /\ CmdSave(typed, wait, w))
            => IF lastOp'.applied
               THEN /\ ct'.SaveFilePath = SaveFilename(ct, typed)
                    /\ ~LoadFromFile(fs', ct'.SaveFilePath).err
               ELSE ct'.SaveFilePath = ct.SaveFilePath

C28_TargetIsUsed ==
    (lastOp'.op \in MutatingOps /\ lastOp'.applied /\ ct.SaveFilePath # <<>>)
        => /\ lastWrite' \in WriteOutcomes
           /\ ct'.SaveFilePath = ct.SaveFilePath
           /\ \A p \in DOMAIN fs' : p # ct.SaveFilePath => (p \in DOMAIN fs /\ fs'[p] = fs[p])
           /\ lastWrite' = "ok" => fs'[ct.SaveFilePath] = JSONFile(Serialize(ct'))

(***************************************************************************)
(* C28.  As claimed: started without an argument the encounter has no save *)
(* target and auto-save is inert, no Engine operation writes until a save  *)
(* command succeeds; from then on the saved path is the target of every    *)
(* later mutation; a failed save leaves the target unchanged.  In the loop *)
(* the target is thus set by a successful save command and by nothing      *)
(* else.  Fails: a load command that succeeds sets the target to the file  *)
(* it read (line 379), so a program started without an argument writes to  *)
(* a file it has loaded without ever having saved.                         *)
(***************************************************************************)
C28_OnlySaveSetsTarget ==
    [](lastOp = Op("Startup", -1, 0, TRUE) => ct.SaveFilePath = <<>>)
    /\ [][/\ C28_Inert
          /\ C28_SaveSetsTarget
          /\ C28_TargetIsUsed
          /\ (pc = "loop" /\ ct'.SaveFilePath # ct.SaveFilePath)
                => (Called("Save") /\ lastOp'.applied)]_vars

(***************************************************************************)
(* C28, amended.  Started without an argument the encounter has no save    *)
(* target and auto-save is inert: no Engine operation writes anything      *)
(* while there is no target.  A save command that succeeds makes its path  *)
(* the target and one that fails leaves it unchanged; a load command that  *)
(* succeeds makes the file it read the target and one that fails leaves it *)
(* unchanged; nothing else changes the target, and every Engine operation  *)
(* that applies writes to the target of that moment.                       *)
(***************************************************************************)
C28_SaveOrLoadSetsTarget ==
    [](lastOp = Op("Startup", -1, 0, TRUE) => ct.SaveFilePath = <<>>)
    /\ [][/\ C28_Inert
          /\ C28_SaveSetsTarget
          /\ C28_TargetIsUsed
          /\ \A filename \in {PathA, PathB} :
                (Called("Load") /\ CmdLoad(filename))
                    => ct'.SaveFilePath = IF lastOp'.applied THEN filename ELSE ct.SaveFilePath
          /\ (pc = "loop" /\ ct'.SaveFilePath # ct.SaveFilePath)
                => ((Called("Save") \/ Called("Load")) /\ lastOp'.applied)]_vars

\* started without an argument, saved as "b": the next mutation is written to "b.json"
C28_Witness ==
    /\ lastOp = Op("AddCombatant", 0, 1, TRUE)
    /\ lastWrite = "ok"
    /\ ct.SaveFilePath = PathB
    /\ DOMAIN fs = {PathB}
    /\ fs[PathB] = JSONFile(Serialize(ct))

(***************************************************************************)
(* C29.  A load that succeeds on a payload whose status-effect catalog is  *)
(* empty or absent (a file of the older format has no such field) yields   *)
(* an encounter whose catalog is the default catalog a fresh encounter is  *)
(* seeded with; a decoded catalog that is not empty is kept as decoded.    *)
(* The load is the one of the startup or the one of the load command.      *)
(***************************************************************************)
DecodedCatalog(files, filename) ==
    IF "combatTracker" \in DOMAIN files[filename].data
    THEN StringsField(files[filename].data.combatTracker, "statusEffects")
    ELSE <<>>

C29_EmptyCatalogGetsDefault ==
    [][\A filename \in {PathA, PathB} :
          (/\ ~LoadFromFile(fs, filename).err
           /\ \/ Called("Startup") /\ Startup(<<filename>>)
              \/ Called("Load") /\ CmdLoad(filename))
             => /\ lastOp'.applied
                /\ ct'.StatusEffects = IF Len(DecodedCatalog(fs, filename)) = 0
                                       THEN NewCombatTracker.StatusEffects
                                       ELSE DecodedCatalog(fs, filename)]_vars

\* a file of the older format loaded by the load command after a start without argument
C29_Witness ==
    /\ lastOp = Op("Load", -1, 0, TRUE)
    /\ ct.SaveFilePath = PathA
    /\ fs[PathA] = OldFormatFile
    /\ "statusEffects" \notin DOMAIN fs[PathA].data.combatTracker
    /\ ct.StatusEffects = NewCombatTracker.StatusEffects
    /\ Len(ct.StatusEffects) = 15

(***************************************************************************)
(* C30.  The scenario, state by state: the fresh tracker with Hero and     *)
(* Wolf added; combat started; Hero hit for 25.                            *)
(***************************************************************************)
ScenarioAdded ==
    [NewCombatTracker EXCEPT !.Combatants = <<Combatant(Hero, 10, 20, TRUE), Combatant(Wolf, 15, 10, FALSE)>>]

ScenarioStarted ==
    [NewCombatTracker EXCEPT !.Combatants = <<Combatant(Wolf, 15, 10, FALSE), Combatant(Hero, 10, 20, TRUE)>>,
                             !.Round = 1, !.CurrentTurnIdx = 0, !.IsActive = TRUE]

ScenarioHeroDown ==
    [ScenarioStarted EXCEPT !.Combatants[2].CurrentHP = 0, !.Combatants[2].IsConscious = FALSE]

ScenarioUpToTheHit ==
    /\ (Called("StartCombat") /\ ct = ScenarioAdded /\ StartCombat("ok")) => ct' = ScenarioStarted
    /\ (Called("AdjustHP") /\ ct = ScenarioStarted /\ AdjustHP(1, -25, "ok")) => ct' = ScenarioHeroDown

(***************************************************************************)
(* C30.  As claimed: from a fresh encounter AddCombatant("Hero", 10, 20,   *)
(* player), AddCombatant("Wolf", 15, 10, monster), StartCombat gives the   *)
(* order [Wolf, Hero], round = 1, currentTurnIdx = 0; AdjustHP(1, -25)     *)
(* gives Hero currentHP = 0 and isConscious = false; the single            *)
(* AdvanceTurn that follows wraps to currentTurnIdx = 0 with round = 2.    *)
(* Fails at the last step: NextTurn moves to index 1, Hero, whether or not *)
(* Hero is conscious, and the round stays 1.                               *)
(***************************************************************************)
C30_ScenarioWrapsAtOnce ==
    [][/\ ScenarioUpToTheHit
       /\ (Called("NextTurn") /\ ct = ScenarioHeroDown /\ NextTurn("ok"))
             => (ct'.CurrentTurnIdx = 0 /\ ct'.Round = 2)]_vars

(***************************************************************************)
(* C30, amended.  The same scenario up to the hit; the AdvanceTurn that    *)
(* follows moves to currentTurnIdx = 1 (the unconscious Hero) in round 1,  *)
(* and the one after it wraps to currentTurnIdx = 0 with round = 2.        *)
(***************************************************************************)
C30_ScenarioWrapsAfterHero ==
    [][/\ ScenarioUpToTheHit
       /\ (Called("NextTurn") /\ ct = ScenarioHeroDown /\ NextTurn("ok"))
             => ct' = [ScenarioHeroDown EXCEPT !.CurrentTurnIdx = 1]
       /\ (Called("NextTurn") /\ ct = [ScenarioHeroDown EXCEPT !.CurrentTurnIdx = 1] /\ NextTurn("ok"))
             => ct' = [ScenarioHeroDown EXCEPT !.CurrentTurnIdx = 0, !.Round = 2]]_vars

\* the scenario after its second AdvanceTurn
C30_Witness ==
    /\ lastOp = Op("NextTurn", -1, 0, TRUE)
    /\ ct = [ScenarioHeroDown EXCEPT !.CurrentTurnIdx = 0, !.Round = 2]

(***************************************************************************)
(* C31.  For every sequence of AddCombatant calls on a fresh encounter the *)
(* roster is as long as the number of calls and in call order; each call   *)
(* appends one combatant with currentHP = maxHP, conscious, no temporary   *)
(* HP and an empty status list, and leaves the earlier ones as they were;  *)
(* no name, initiative or maxHP is refused.                                *)
(***************************************************************************)
C31_Fresh(c) ==
    /\ c.CurrentHP = c.MaxHP
    /\ c.IsConscious
    /\ c.TemporaryHP = 0
    /\ c.StatusEffects = <<>>

C31_AddCombatantAppends ==
    [](Len(ct.Combatants) = steps /\ \A i \in 1..Len(ct.Combatants) : C31_Fresh(ct.Combatants[i]))
    /\ [][Called("AddCombatant")
            => /\ lastOp'.applied
               /\ Len(ct'.Combatants) = Len(ct.Combatants) + 1
               /\ SubSeq(ct'.Combatants, 1, Len(ct.Combatants)) = ct.Combatants
               /\ ct'.Combatants[Len(ct'.Combatants)].MaxHP = lastOp'.n
               /\ C31_Fresh(ct'.Combatants[Len(ct'.Combatants)])
               /\ ct' = [ct EXCEPT !.Combatants = ct'.Combatants]]_vars

\* a nameless monster of -1 max HP added after Hero
C31_Witness ==
    /\ steps = 2
    /\ Len(ct.Combatants) = 2
    /\ ct.Combatants[1].Name = Hero
    /\ ct.Combatants[1].MaxHP = 20
    /\ ct.Combatants[2].Name = <<>>
    /\ ct.Combatants[2].MaxHP = -1
    /\ ct.Combatants[2].CurrentHP = -1
    /\ ct.Combatants[2].IsConscious

(***************************************************************************)
(* C32.  Turn order is mechanical.  During active combat each AdvanceTurn  *)
(* moves from position i to position i + 1 of the roster, and from the     *)
(* last position to position 0 of the next round, so that with an          *)
(* unchanged roster of n combatants the calls visit 0, 1, ..., n-1 once    *)
(* per round; whether the combatant at a position is conscious plays no    *)
(* part, and the roster is not touched.                                    *)
(***************************************************************************)
C32_TurnOrderIsMechanical ==
    [][(Called("NextTurn") /\ ct.IsActive /\ NextTurn("ok"))
          => LET n == Len(ct.Combatants) IN
             /\ ct'.Combatants = ct.Combatants
             /\ ct'.IsActive
             /\ IF ct.CurrentTurnIdx = n - 1
                THEN ct'.CurrentTurnIdx = 0 /\ ct'.Round = ct.Round + 1
                ELSE ct'.CurrentTurnIdx = ct.CurrentTurnIdx + 1 /\ ct'.Round = ct.Round]_vars

\* the turn has come to Hero, who lies unconscious at 0 HP
C32_Witness ==
    /\ lastOp = Op("NextTurn", -1, 0, TRUE)
    /\ ct.IsActive
    /\ Len(ct.Combatants) = 2
    /\ ct.CurrentTurnIdx = 1
    /\ ct.Combatants[2].Name = Hero
    /\ ct.Combatants[2].CurrentHP = 0
    /\ ~ct.Combatants[2].IsConscious

(***************************************************************************)
(* C33.  A combatant appended by AddCombatant or DuplicateCombatant during *)
(* active combat is placed behind the current turn position, and neither   *)
(* currentTurnIdx nor round changes.  As long as the roster is not         *)
(* re-sorted it gets its turn in the round it joined: AdvanceTurn goes to  *)
(* the next position and increments the round only when no position is     *)
(* left behind the current one.                                            *)
(***************************************************************************)
C33_LateArrivalGetsItsTurn ==
    [][/\ (/\ Called("AddCombatant") \/ Called("DuplicateCombatant")
           /\ lastOp'.applied
           /\ ct.IsActive)
             => /\ ct'.CurrentTurnIdx = ct.CurrentTurnIdx
                /\ ct'.Round = ct.Round
                /\ ct'.IsActive
                /\ Len(ct'.Combatants) > Len(ct.Combatants)
                /\ SubSeq(ct'.Combatants, 1, Len(ct.Combatants)) = ct.Combatants
                /\ ct.CurrentTurnIdx < Len(ct.Combatants)
       /\ (Called("NextTurn") /\ ct.IsActive /\ NextTurn("ok"))
             => \A position \in 0..(Len(ct.Combatants) - 1) :
                   position > ct.CurrentTurnIdx
                      => /\ ct'.Round = ct.Round
                         /\ ct'.CurrentTurnIdx = ct.CurrentTurnIdx + 1
                         /\ ct'.CurrentTurnIdx <= position
                         /\ ct'.Combatants[position + 1] = ct.Combatants[position + 1]]_vars

\* Wolf joined the running combat behind Hero and has its turn in round 1
C33_Witness ==
    /\ lastOp = Op("NextTurn", -1, 0, TRUE)
    /\ ct.IsActive
    /\ ct.Round = 1
    /\ Len(ct.Combatants) = 2
    /\ ct.Combatants[1].Name = Hero
    /\ ct.Combatants[2].Name = Wolf
    /\ ct.CurrentTurnIdx = 1

(***************************************************************************)
(* C34.  In every state reached from a fresh encounter through the Engine  *)
(* operations and through saving and re-loading the program's own files,   *)
(* isActive = true implies len(combatants) >= 1 and                        *)
(* 0 <= currentTurnIdx < len(combatants): the current turn designates an   *)
(* existing combatant, and AdvanceTurn never indexes outside the roster.   *)
(***************************************************************************)
C34_ActiveTurnDesignatesCombatant ==
    /\ pc # "panic"
    /\ ct.IsActive => /\ Len(ct.Combatants) >= 1
                      /\ ValidIndex(ct, ct.CurrentTurnIdx)

\* an encounter in its second round, read back from the file it was auto-saved to
C34_Witness ==
    /\ lastOp = Op("Load", -1, 0, TRUE)
    /\ ct.IsActive
    /\ ct.Round = 2
    /\ ct.CurrentTurnIdx = 0
    /\ Len(ct.Combatants) = 1

(***************************************************************************)
(* C35.  For every combatant added with maxHP >= 1, in every state reached *)
(* through Engine operations, isConscious is true if and only if           *)
(* currentHP > 0.  Fails: healing a conscious combatant by the greatest    *)
(* int wraps the sum of line 181 around to a negative currentHP, which the *)
(* cap of line 182 lets through and which leaves isConscious true.  Found  *)
(* on the 32-bit build with the delta MaxInt32.                            *)
(***************************************************************************)
C35_ConsciousIffHPPositive ==
    \A i \in 1..Len(ct.Combatants) :
        ct.Combatants[i].MaxHP >= 1
            => (ct.Combatants[i].IsConscious <=> ct.Combatants[i].CurrentHP > 0)

(***************************************************************************)
(* C36.  The per-combatant operations touch only their target.             *)
(* AdjustHP(i, _) changes at most currentHP, temporaryHP and isConscious   *)
(* of combatant i, and healing leaves temporaryHP alone; AddTemporaryHP    *)
(* changes at most its temporaryHP; AddStatusEffect and RemoveStatusEffect *)
(* only its status list.  All other combatants, the roster order, round,   *)
(* currentTurnIdx, isActive, the labels, the catalog and the save target   *)
(* are unchanged.  SetEncounterDetails changes only campaignName and       *)
(* encounterName.                                                          *)
(***************************************************************************)
C36_OnlyTheTargetChanges ==
    [][LET i == lastOp'.index + 1
           old == ct.Combatants[i]
           new == ct'.Combatants[i]
       IN  /\ (Called("AdjustHP") /\ lastOp'.applied)
                 => /\ ct' = [ct EXCEPT !.Combatants[i] =
                                 [old EXCEPT !.CurrentHP = new.CurrentHP,
                                             !.TemporaryHP = new.TemporaryHP,
                                             !.IsConscious = new.IsConscious]]
                    /\ lastOp'.n >= 0 => new.TemporaryHP = old.TemporaryHP
           /\ (Called("AddTemporaryHP") /\ lastOp'.applied)
                 => ct' = [ct EXCEPT !.Combatants[i] = [old EXCEPT !.TemporaryHP = new.TemporaryHP]]
           /\ ((Called("AddStatusEffect") \/ Called("RemoveStatusEffect")) /\ lastOp'.applied)
                 => ct' = [ct EXCEPT !.Combatants[i] = [old EXCEPT !.StatusEffects = new.StatusEffects]]
           /\ Called("SetEncounterDetails")
                 => ct' = [ct EXCEPT !.CampaignName = ct'.CampaignName,
                                     !.EncounterName = ct'.EncounterName]]_vars

\* the second of two combatants knocked out, the first one untouched
C36_Witness ==
    /\ lastOp = Op("AdjustHP", 1, -1, TRUE)
    /\ Len(ct.Combatants) = 2
    /\ ct.Combatants[2].CurrentHP = 0
    /\ ~ct.Combatants[2].IsConscious
    /\ ct.Combatants[1].CurrentHP = 1
    /\ ct.Combatants[1].IsConscious

(***************************************************************************)
(* C37.  The roster is append-only and sorting is a permutation.  No       *)
(* Engine operation removes a combatant or changes an existing combatant's *)
(* name, maxHP or isPlayer.  The roster grows by 1 on AddCombatant, by     *)
(* count on a DuplicateCombatant that makes copies (valid index, count at  *)
(* least 1) and keeps its length in every other operation.  The re-sort of *)
(* StartCombat and ChangeInitiative neither loses nor duplicates a         *)
(* combatant: the new roster is a rearrangement of the whole records, so   *)
(* each combatant moves with its HP, temporary HP and status list.         *)
(***************************************************************************)
C37_Identity(c) == <<c.Name, c.MaxHP, c.IsPlayer>>

C37_Growth ==
    IF Called("AddCombatant") THEN 1
    ELSE IF Called("DuplicateCombatant") /\ lastOp'.applied /\ lastOp'.n >= 1 THEN lastOp'.n
    ELSE 0

C37_RosterIsAppendOnly ==
    [][(lastOp'.op \in MutatingOps) =>
          LET old == ct.Combatants
              new == ct'.Combatants
          IN  /\ Len(new) = Len(old) + C37_Growth
              /\ IF Called("StartCombat")
                 THEN IsPermutation(old, new)
                 ELSE IF Called("ChangeInitiative") /\ lastOp'.applied
                 THEN IsPermutation([old EXCEPT ![lastOp'.index + 1].Initiative = lastOp'.n], new)
                 ELSE \A k \in 1..Len(old) :
                         /\ C37_Identity(new[k]) = C37_Identity(old[k])
                         /\ Called("ChangeInitiative") => new[k] = old[k]]_vars

\* two copies were appended behind a hurt original, or the start of combat
\* moved a hurt Hero behind the Wolf
C37_Witness ==
    \/ /\ lastOp = Op("DuplicateCombatant", 0, 2, TRUE)
       /\ Len(ct.Combatants) = 3
       /\ ct.Combatants[1].Name = Hero
       /\ ct.Combatants[1].CurrentHP = 1
       /\ ct.Combatants[3].CurrentHP = 2
    \/ /\ lastOp.op = "StartCombat" /\ lastOp.applied
       /\ Len(ct.Combatants) = 2
       /\ ct.Combatants[1].Name = Wolf
       /\ ct.Combatants[2].Name = Hero
       /\ ct.Combatants[2].CurrentHP = 1

(***************************************************************************)
(* C38.  round changes in two ways only: a successful StartCombat sets it  *)
(* to 1, and a NextTurn that wraps to the top of the order increases it by *)
(* exactly 1.  Every other operation (EndCombat, ChangeInitiative and the  *)
(* growth of the roster included) leaves round unchanged, so round never   *)
(* decreases between two successful StartCombat calls.                     *)
(***************************************************************************)
C38_RoundChangesInTwoWays ==
    [][(lastOp'.op \in MutatingOps) =>
          /\ ct'.Round =
                IF Called("StartCombat") /\ lastOp'.applied THEN 1
                ELSE IF Called("NextTurn") /\ lastOp'.applied
                        /\ ct.CurrentTurnIdx + 1 >= Len(ct.Combatants)
                THEN ct.Round + 1
                ELSE ct.Round
          /\ ~(Called("StartCombat") /\ lastOp'.applied) => ct'.Round >= ct.Round]_vars

\* the second of two combatants has ended the first round
C38_Witness ==
    /\ lastOp = Op("NextTurn", -1, 0, TRUE)
    /\ Len(ct.Combatants) = 2
    /\ ct.IsActive
    /\ ct.CurrentTurnIdx = 0
    /\ ct.Round = 2

(***************************************************************************)
(* C39.  No Engine operation changes the save target; only the startup, a  *)
(* successful explicit save and a successful load do.  A successful        *)
(* explicit load from a destination B while the auto-save goes to A leaves *)
(* in memory the encounter decoded from B with save target B and writes    *)
(* nothing; every later mutation writes to B only, so A keeps the content  *)
(* of its last write.                                                      *)
(***************************************************************************)
C39_Paths == {PathA, PathB}

C39_Content(files, path) == IF path \in DOMAIN files THEN files[path] ELSE "absent"

C39_LoadMovesTheTarget ==
    [][/\ (lastOp'.op \in MutatingOps) =>
             /\ ct'.SaveFilePath = ct.SaveFilePath
             /\ \A path \in C39_Paths \ {ct.SaveFilePath} :
                    C39_Content(fs', path) = C39_Content(fs, path)
             /\ lastWrite' = "ok" => fs'[ct.SaveFilePath] = JSONFile(Serialize(ct'))
       /\ (ct'.SaveFilePath # ct.SaveFilePath) =>
             \/ Called("Startup")
             \/ (Called("Save") \/ Called("Load")) /\ lastOp'.applied
       /\ (Called("Load") /\ lastOp'.applied) =>
             \E filename \in C39_Paths :
                /\ CmdLoad(filename)
                /\ ct'.SaveFilePath = filename
                /\ Memory(ct') = Memory(LoadFromFile(fs, filename).tracker)
                /\ fs' = fs]_vars

\* saved to b.json, loaded a.json again, and the Hero added afterwards is in
\* a.json only: b.json still holds the roster without him
C39_Witness ==
    /\ lastOp.op = "AddCombatant"
    /\ lastWrite = "ok"
    /\ ct.SaveFilePath = PathA
    /\ fs[PathA] = JSONFile(Serialize(ct))
    /\ PathB \in DOMAIN fs
    /\ ~LoadFromFile(fs, PathB).err
    /\ LoadFromFile(fs, PathB).tracker.Combatants = <<>>

(***************************************************************************)
(* C40, as claimed.  After a startup fallback caused by an existing but    *)
(* undecodable destination, the startup itself writes nothing and the      *)
(* destination's content is left untouched until the first successful      *)
(* mutating operation or the exit-time save, whose write then fully        *)
(* replaces it with the serialized encounter.  Writes the disk refuses are *)
(* left out of the statement.  Fails: the save command, asked before any   *)
(* mutation and left at its default file name, writes the destination.     *)
(***************************************************************************)
C40_Untouched ==
    /\ pc = "loop"
    /\ ct.SaveFilePath = PathA
    /\ PathA \in DOMAIN fs
    /\ fs[PathA] = NotJSONFile

C40_AutoSaves == (lastOp'.op \in MutatingOps /\ lastOp'.applied) \/ Called("Exit")

C40_Written ==
    /\ lastWrite' = "ok" => fs'[PathA] = JSONFile(SerializeAt(ct', now'))
    /\ lastWrite' = "openfail" => fs'[PathA] = fs[PathA]

C40_UntouchedUntilMutation ==
    [][/\ Called("Startup") => fs' = fs
       /\ C40_Untouched => IF C40_AutoSaves THEN C40_Written ELSE fs'[PathA] = fs[PathA]]_vars

(***************************************************************************)
(* C40, what the code does.  After a startup fallback caused by an         *)
(* existing but undecodable destination, the startup itself writes nothing *)
(* and the destination's content is left untouched until the first write   *)
(* to it while it is the save target: the auto-save of a successful        *)
(* mutating operation, the exit-time save, or a save command left at its   *)
(* default file name.  A write that succeeds fully replaces the content    *)
(* with the serialized encounter; a write whose open fails leaves it.      *)
(***************************************************************************)
C40_SavesToTarget ==
    Called("Save") /\ \E wait \in Waits, w \in WriteOutcomes : CmdSave(<<>>, wait, w)

C40_UntouchedUntilFirstWrite ==
    [][/\ Called("Startup") => fs' = fs
       /\ C40_Untouched => IF C40_AutoSaves \/ C40_SavesToTarget
                           THEN C40_Written
                           ELSE fs'[PathA] = fs[PathA]]_vars

\* the startup fell back on a.json, and a hit on an empty roster wrote nothing
C40_Witness ==
    /\ C40_Untouched
    /\ lastOp = Op("handleAdjustHP", 0, -1, FALSE)
    /\ ct = [NewCombatTracker EXCEPT !.SaveFilePath = PathA]

=============================================================================
